---- MODULE Spec2Model ----
(***************************************************************************)
(* Model of src/backups.py (class PostgreSQLBackups): the backup/restore   *)
(* orchestration of one unit of the PostgreSQL operator.                   *)
(*                                                                         *)
(* The state is what the handlers of one unit read and write: the unit     *)
(* status, the keys of the application and unit peer data that backups.py  *)
(* uses and the flag pushed with update_config.  Each handler is one       *)
(* action.  Everything a handler reads from a collaborator (leadership,    *)
(* primary role, TLS, the S3 relation, whether the database process runs,  *)
(* whether the data directory exists, exit codes of the engine, upload     *)
(* results) is an input of the action, drawn with \E where the code reads  *)
(* it, and everything it asks of a collaborator is written, in order, to   *)
(* the run's list of calls.                                                *)
(*                                                                         *)
(* Peer data is Juju relation data: writing the empty string to a key      *)
(* removes the key (backups.py relies on it: line 150 reads "stanza" with  *)
(* a default after line 152/422 wrote "" to it, and the docstring of       *)
(* _restart_database, line 782, calls the write of "" a removal).  The     *)
(* value Absent stands for a key that is not in the mapping.               *)
(***************************************************************************)
EXTENDS Integers, Sequences, FiniteSets, TLC

\* ---------------------------------------------------------------- bounds

\* Largest number of planned units the environment reports.
MaxPlannedUnits == 2
\* Creation times of the backups a repository may hold: 1..MaxTs.
MaxTs == 1
\* Largest number of repositories in the engine's info output.
MaxRepos == 2
\* How often the primary role may change while one action runs.
MaxRoleChanges == 1
\* Creation times of the backups of a repository whose catalog is listed on
\* its own: 1..MaxListed.
MaxListed == 3

\* ------------------------------------------------------ program constants

\* stop_after_attempt(5)
StopAfterAttempt == 5
\* the engine's exit code for a connection timeout
TimeoutExitCode == 49

ANOTHER_CLUSTER_REPOSITORY_ERROR_MESSAGE == "the S3 repository has backups from another cluster"
FAILED_TO_ACCESS_CREATE_BUCKET_ERROR_MESSAGE == "failed to access/create the bucket, check your S3 settings"
FAILED_TO_INITIALIZE_STANZA_ERROR_MESSAGE == "failed to initialize stanza, check your S3 settings"

\* The list without the message of the failed stanza initialisation.
S3_BLOCK_MESSAGES_NO_STANZA ==
    { ANOTHER_CLUSTER_REPOSITORY_ERROR_MESSAGE,
      FAILED_TO_ACCESS_CREATE_BUCKET_ERROR_MESSAGE }

\* The list without the message of the foreign repository.
S3_BLOCK_MESSAGES_NO_REPOSITORY ==
    { FAILED_TO_ACCESS_CREATE_BUCKET_ERROR_MESSAGE,
      FAILED_TO_INITIALIZE_STANZA_ERROR_MESSAGE }

S3_BLOCK_MESSAGES ==
    { ANOTHER_CLUSTER_REPOSITORY_ERROR_MESSAGE,
      FAILED_TO_ACCESS_CREATE_BUCKET_ERROR_MESSAGE,
      FAILED_TO_INITIALIZE_STANZA_ERROR_MESSAGE }

\* A blocked message set by another part of the charm.
OTHER_BLOCK_MESSAGE == "blocked by another part of the charm"

\* f"{self.model.name}.{self.charm.cluster_name}"
stanza_name == "model.cluster"
\* The stanza of another cluster that wrote to the same repository.
OtherStanza == "other.cluster"

\* A key that is not in the peer data.
Absent == ""

\* ----------------------------------------------------------------- status

ActiveStatus == [kind |-> "active", msg |-> ""]
MaintenanceStatus(m) == [kind |-> "maintenance", msg |-> m]
BlockedStatus(m) == [kind |-> "blocked", msg |-> m]

\* self.charm.is_blocked
is_blocked(st) == st.kind = "blocked"

\* ------------------------------------------------------------------ state

VARIABLES
    status,          \* self.charm.unit.status
    stanza,          \* app_peer_data["stanza"]
    initPending,     \* app_peer_data["init-pgbackrest"]
    restoringBackup, \* app_peer_data["restoring-backup"]: a label, or NoLabel
    restoreStanza,   \* app_peer_data["restore-stanza"]
    connectivity,    \* unit_peer_data["connectivity"]
    creatingBackup,  \* the is_creating_backup flag last pushed with update_config
    op,              \* the handler that has just run, or "idle"
    inp,             \* what that run read from its collaborators
    calls,           \* the collaborator calls of that run, in order
    reports,         \* event.fail / event.set_results of that run, in order
    exc              \* the exception that run ended with, or ""

vars == << status, stanza, initPending, restoringBackup, restoreStanza,
           connectivity, creatingBackup,
           op, inp, calls, reports, exc >>

\* The engine's backup labels: a creation time and the type character
\* (F full, D differential; an incremental label differs from a differential
\* one in that character only).
LabelKinds == {"F", "D"}
Label(t, k) == [ts |-> t, kind |-> k]
NoLabel == [ts |-> 0, kind |-> ""]
Timestamps == 1..MaxTs

\* No handler is running: nothing was read.
NoInput == [e |-> "none"]

\* The state of the unit as one record: what a handler starts from.
Cur ==
    [ status |-> status, stanza |-> stanza, initPending |-> initPending,
      restoringBackup |-> restoringBackup, restoreStanza |-> restoreStanza,
      connectivity |-> connectivity, creatingBackup |-> creatingBackup,
      calls |-> << >>, reports |-> << >>, exc |-> "" ]

\* One run of a handler: from Cur and its inputs to the state it leaves.
Run(name, in, s) ==
    /\ op = "idle"
    /\ \E r \in {s} :
          /\ status' = r.status
          /\ stanza' = r.stanza
          /\ initPending' = r.initPending
          /\ restoringBackup' = r.restoringBackup
          /\ restoreStanza' = r.restoreStanza
          /\ connectivity' = r.connectivity
          /\ creatingBackup' = r.creatingBackup
          /\ op' = name
          /\ inp' = in
          /\ calls' = r.calls
          /\ reports' = r.reports
          /\ exc' = r.exc

\* ---------------------------------------------------------- small helpers

Call(s, c) == [s EXCEPT !.calls = Append(@, c)]
Raise(s, e) == [s EXCEPT !.exc = e]
\* event.fail(message)
Fail(s, m) == [s EXCEPT !.reports = Append(@, [kind |-> "fail", msg |-> m])]
\* event.set_results({...: message})
SetResults(s, m) == [s EXCEPT !.reports = Append(@, [kind |-> "ok", msg |-> m])]
SetStatus(s, st) == [s EXCEPT !.status = st]

\* self.charm.update_config(): renders and pushes the cluster manager's
\* configuration; the flag keeps the value last given explicitly.
update_config(s) == Call(s, "update_config")
\* self.charm.update_config(is_creating_backup=flag)
update_config_backup(s, flag) ==
    Call([s EXCEPT !.creatingBackup = flag],
         IF flag THEN "update_config(is_creating_backup=True)"
                 ELSE "update_config(is_creating_backup=False)")

\* if self.charm._patroni.member_started: reload_patroni_configuration()
\* in.started: member_started
reload_if_started(s, in) == IF in.started THEN Call(s, "reload") ELSE s

Count(seq, c) == Cardinality({i \in DOMAIN seq : seq[i] = c})
Has(seq, c) == \E i \in DOMAIN seq : seq[i] = c

\* ------------------------------------------------- eligibility predicates

\* What the S3 relation offers: no relation, a relation that lacks one of
\* bucket / access-key / secret-key, or a complete parameter set.
S3States == {"norelation", "missing", "ok"}

\* _retrieve_s3_parameters()[1] is non-empty
missing_parameters(s3) == s3 # "ok"

_are_backup_settings_ok(in) ==
    IF in.s3 = "norelation"
    THEN [ok |-> FALSE,
          msg |-> "Relation with s3-integrator charm missing, cannot create/restore backup."]
    ELSE IF missing_parameters(in.s3)
    THEN [ok |-> FALSE, msg |-> "Missing S3 parameters"]
    ELSE [ok |-> TRUE, msg |-> ""]

\* _can_unit_perform_backup with the stanza looked at before the database
\* process: the order of two checks exchanged.
_can_unit_perform_backup_stanza_first(s, in) ==
    IF is_blocked(s.status)
    THEN [ok |-> FALSE, msg |-> "Unit is in a blocking state"]
    ELSE IF in.primary /\ in.planned > 1 /\ in.tls
    THEN [ok |-> FALSE, msg |-> "Unit cannot perform backups as it is the cluster primary"]
    ELSE IF ~in.primary /\ ~in.tls
    THEN [ok |-> FALSE, msg |-> "Unit cannot perform backups as TLS is not enabled"]
    ELSE IF s.stanza = Absent
    THEN [ok |-> FALSE, msg |-> "Stanza was not initialised"]
    ELSE IF ~in.started
    THEN [ok |-> FALSE, msg |-> "Unit cannot perform backups as it's not in running state"]
    ELSE _are_backup_settings_ok(in)

\* _can_unit_perform_backup without the check of the stanza.
_can_unit_perform_backup_no_stanza(s, in) ==
    IF is_blocked(s.status)
    THEN [ok |-> FALSE, msg |-> "Unit is in a blocking state"]
    ELSE IF in.primary /\ in.planned > 1 /\ in.tls
    THEN [ok |-> FALSE, msg |-> "Unit cannot perform backups as it is the cluster primary"]
    ELSE IF ~in.primary /\ ~in.tls
    THEN [ok |-> FALSE, msg |-> "Unit cannot perform backups as TLS is not enabled"]
    ELSE IF ~in.started
    THEN [ok |-> FALSE, msg |-> "Unit cannot perform backups as it's not in running state"]
    ELSE _are_backup_settings_ok(in)

\* in.tls: "tls" in unit_peer_data; in.primary: unit.name = get_primary();
\* in.planned: app.planned_units(); in.started: member_started
_can_unit_perform_backup(s, in) ==
    IF is_blocked(s.status)
    THEN [ok |-> FALSE, msg |-> "Unit is in a blocking state"]
    ELSE IF in.primary /\ in.planned > 1 /\ in.tls
    THEN [ok |-> FALSE, msg |-> "Unit cannot perform backups as it is the cluster primary"]
    ELSE IF ~in.primary /\ ~in.tls
    THEN [ok |-> FALSE, msg |-> "Unit cannot perform backups as TLS is not enabled"]
    ELSE IF ~in.started
    THEN [ok |-> FALSE, msg |-> "Unit cannot perform backups as it's not in running state"]
    ELSE IF s.stanza = Absent
    THEN [ok |-> FALSE, msg |-> "Stanza was not initialised"]
    ELSE _are_backup_settings_ok(in)

\* ------------------------------------------------------------ the catalog

\* The engine's "info --output=json": an exit code and a list of
\* repositories {name, backup: [{label, error}]}.
\* The conversion of _list_backups without "[:-1]": the type character stays
\* in the backup-id.
BackupIdOfLabel_keeping_type(label) == [id |-> label.ts, kind |-> label.kind]

\* The public backup-id of a label: the label without its type character,
\* parsed as a time and printed in the backup-id format.
BackupIdOfLabel(label) == [id |-> label.ts]
\* The label restore writes for a backup-id: its time printed in the
\* engine's format, followed by "F".
LabelOfBackupId(bid) == Label(bid.id, "F")

\* The comprehension of _list_backups with its condition on the wrong side:
\* without show_failed it keeps the failed backups and drops the finished.
RECURSIVE ListEntries_dropping_finished(_, _, _)
ListEntries_dropping_finished(backups, name, show_failed) ==
    IF backups = << >> THEN << >>
    ELSE LET b == Head(backups)
             rest == ListEntries_dropping_finished(Tail(backups), name, show_failed)
         IN IF show_failed \/ b.error
            THEN << [id |-> BackupIdOfLabel(b.label), stanza |-> name] >> \o rest
            ELSE rest

RECURSIVE ListEntries(_, _, _)
ListEntries(backups, name, show_failed) ==
    IF backups = << >> THEN << >>
    ELSE LET b == Head(backups)
             rest == ListEntries(Tail(backups), name, show_failed)
         IN IF show_failed \/ ~b.error
            THEN << [id |-> BackupIdOfLabel(b.label), stanza |-> name] >> \o rest
            ELSE rest

\* _list_backups without its filter: failed backups are always listed.
_list_backups_unfiltered(info, show_failed) ==
    IF info.rc # 0 THEN [err |-> TRUE, list |-> << >>]
    ELSE IF info.repos = << >> THEN [err |-> FALSE, list |-> << >>]
    ELSE LET repository_info == Head(info.repos) IN
         [err |-> FALSE,
          list |-> ListEntries(repository_info.backup, repository_info.name, TRUE)]

\* _list_backups: [err, list]; list is the ordered mapping id -> stanza.
_list_backups(info, show_failed) ==
    IF info.rc # 0 THEN [err |-> TRUE, list |-> << >>]
    ELSE IF info.repos = << >> THEN [err |-> FALSE, list |-> << >>]
    ELSE LET repository_info == Head(info.repos) IN
         [err |-> FALSE,
          list |-> ListEntries(repository_info.backup, repository_info.name, show_failed)]

\* backup_id in backups.keys()
InList(list, bid) == \E i \in DOMAIN list : list[i].id = bid
\* backups[backup_id]
StanzaOf(list, bid) ==
    list[CHOOSE i \in DOMAIN list : list[i].id = bid].stanza

\* ------------------------------------------------- repository ownership

\* in.probe: what "info --output=json" (timeout=30) gives here: out is
\* "timeout", "error" (non-zero exit) or "ok", and names are the names of
\* the repositories it lists.
RECURSIVE first_foreign(_, _)
first_foreign(names, mine) ==
    IF names = << >> THEN FALSE
    ELSE IF Head(names) # mine THEN TRUE
    ELSE first_foreign(Tail(names), mine)

\* can_use_s3_repository that reports a timeout of info as a failed info.
can_use_s3_repository_timeout_as_error(s, in) ==
    LET s1 == Call(s, "info") IN
    IF in.probe.out \in {"timeout", "error"}
    THEN [s |-> s1, ok |-> FALSE, msg |-> FAILED_TO_INITIALIZE_STANZA_ERROR_MESSAGE]
    ELSE IF in.leader
            /\ first_foreign(in.probe.names,
                             IF s1.stanza = Absent THEN stanza_name ELSE s1.stanza)
    THEN [s |-> reload_if_started(update_config([s1 EXCEPT !.stanza = Absent]), in),
          ok |-> FALSE, msg |-> ANOTHER_CLUSTER_REPOSITORY_ERROR_MESSAGE]
    ELSE [s |-> s1, ok |-> TRUE, msg |-> ""]

\* can_use_s3_repository without "if self.charm.unit.is_leader()": every unit
\* that finds a foreign repository clears the recorded stanza name.
can_use_s3_repository_any_unit(s, in) ==
    LET s1 == Call(s, "info") IN
    IF in.probe.out = "timeout"
    THEN [s |-> Raise(s1, "TimeoutError"), ok |-> FALSE, msg |-> ""]
    ELSE IF in.probe.out = "error"
    THEN [s |-> s1, ok |-> FALSE, msg |-> FAILED_TO_INITIALIZE_STANZA_ERROR_MESSAGE]
    ELSE IF first_foreign(in.probe.names,
                          IF s1.stanza = Absent THEN stanza_name ELSE s1.stanza)
    THEN [s |-> reload_if_started(update_config([s1 EXCEPT !.stanza = Absent]), in),
          ok |-> FALSE, msg |-> ANOTHER_CLUSTER_REPOSITORY_ERROR_MESSAGE]
    ELSE [s |-> s1, ok |-> TRUE, msg |-> ""]

\* can_use_s3_repository that compares with the recorded name only, without
\* the default of app_peer_data.get("stanza", self.stanza_name).
can_use_s3_repository_no_default(s, in) ==
    LET s1 == Call(s, "info") IN
    IF in.probe.out = "timeout"
    THEN [s |-> Raise(s1, "TimeoutError"), ok |-> FALSE, msg |-> ""]
    ELSE IF in.probe.out = "error"
    THEN [s |-> s1, ok |-> FALSE, msg |-> FAILED_TO_INITIALIZE_STANZA_ERROR_MESSAGE]
    ELSE IF in.leader /\ first_foreign(in.probe.names, s1.stanza)
    THEN [s |-> reload_if_started(update_config([s1 EXCEPT !.stanza = Absent]), in),
          ok |-> FALSE, msg |-> ANOTHER_CLUSTER_REPOSITORY_ERROR_MESSAGE]
    ELSE [s |-> s1, ok |-> TRUE, msg |-> ""]

\* Returns [s, ok, msg]; s.exc is set when it raises.
can_use_s3_repository(s, in) ==
    LET s1 == Call(s, "info") IN
    IF in.probe.out = "timeout"
    THEN [s |-> Raise(s1, "TimeoutError"), ok |-> FALSE, msg |-> ""]
    ELSE IF in.probe.out = "error"
    THEN [s |-> s1, ok |-> FALSE, msg |-> FAILED_TO_INITIALIZE_STANZA_ERROR_MESSAGE]
    ELSE IF in.leader
            /\ first_foreign(in.probe.names,
                             IF s1.stanza = Absent THEN stanza_name ELSE s1.stanza)
    THEN [s |-> reload_if_started(update_config([s1 EXCEPT !.stanza = Absent]), in),
          ok |-> FALSE, msg |-> ANOTHER_CLUSTER_REPOSITORY_ERROR_MESSAGE]
    ELSE [s |-> s1, ok |-> TRUE, msg |-> ""]

\* ---------------------------------------------------------- stanza manager

\* in.svc: the way start_stop_pgbackrest_service takes through the snap
\* and TLS checks.
SvcStates == {"nosnap", "stop", "noendpoint", "pingfail", "restart-primary", "restart-replica"}

start_stop_pgbackrest_service(s, in) ==
    IF ~_are_backup_settings_ok(in).ok THEN s
    ELSE IF missing_parameters(in.s3) THEN s
    ELSE LET s1 == Call(s, "render") IN
         CASE in.svc = "nosnap" -> s1
           [] in.svc = "stop" -> Call(s1, "service-stop")
           [] in.svc = "noendpoint" -> s1
           [] in.svc = "pingfail" -> Call(s1, "server-ping")
           [] in.svc = "restart-primary" -> Call(s1, "service-restart")
           [] in.svc = "restart-replica" ->
                Call(Call(s1, "server-ping"), "service-restart")

\* self.charm.app_peer_data.update({"stanza": self.stanza_name,
\* "init-pgbackrest": "True"}), written down among the calls of the run.
record_stanza(s) ==
    Call([s EXCEPT !.stanza = stanza_name, !.initPending = "True"],
         "app_peer_data.update")

\* _initialise_stanza with its last two statements exchanged: the stanza is
\* recorded before the service is started or stopped.
_initialise_stanza_recording_first(s, in) ==
    IF ~in.leader THEN s
    ELSE IF is_blocked(s.status) /\ s.status.msg \notin S3_BLOCK_MESSAGES THEN s
    ELSE
      LET s1 == Call(SetStatus(s, MaintenanceStatus("initialising stanza")),
                     "stanza-create")
      IN IF in.createRc = TimeoutExitCode THEN Raise(s1, "TimeoutError")
         ELSE IF in.createRc # 0
         THEN SetStatus(s1, BlockedStatus(FAILED_TO_INITIALIZE_STANZA_ERROR_MESSAGE))
         ELSE start_stop_pgbackrest_service(record_stanza(s1), in)

\* _initialise_stanza without the guard on the blocked status.
_initialise_stanza_unguarded(s, in) ==
    IF ~in.leader THEN s
    ELSE
      LET s1 == Call(SetStatus(s, MaintenanceStatus("initialising stanza")),
                     "stanza-create")
      IN IF in.createRc = TimeoutExitCode THEN Raise(s1, "TimeoutError")
         ELSE IF in.createRc # 0
         THEN SetStatus(s1, BlockedStatus(FAILED_TO_INITIALIZE_STANZA_ERROR_MESSAGE))
         ELSE LET s2 == start_stop_pgbackrest_service(s1, in) IN
              record_stanza(s2)

\* _initialise_stanza that sets the blocked status after a failed
\* stanza-create but does not return.
_initialise_stanza_no_halt(s, in) ==
    IF ~in.leader THEN s
    ELSE IF is_blocked(s.status) /\ s.status.msg \notin S3_BLOCK_MESSAGES THEN s
    ELSE
      LET s1 == Call(SetStatus(s, MaintenanceStatus("initialising stanza")),
                     "stanza-create")
      IN IF in.createRc = TimeoutExitCode THEN Raise(s1, "TimeoutError")
         ELSE LET s2 == IF in.createRc # 0
                        THEN SetStatus(s1, BlockedStatus(
                                 FAILED_TO_INITIALIZE_STANZA_ERROR_MESSAGE))
                        ELSE s1
                  s3 == start_stop_pgbackrest_service(s2, in)
              IN record_stanza(s3)

\* _initialise_stanza that treats exit code 49 as any other failure.
_initialise_stanza_timeout_as_failure(s, in) ==
    IF ~in.leader THEN s
    ELSE IF is_blocked(s.status) /\ s.status.msg \notin S3_BLOCK_MESSAGES THEN s
    ELSE
      LET s1 == Call(SetStatus(s, MaintenanceStatus("initialising stanza")),
                     "stanza-create")
      IN IF in.createRc # 0
         THEN SetStatus(s1, BlockedStatus(FAILED_TO_INITIALIZE_STANZA_ERROR_MESSAGE))
         ELSE LET s2 == start_stop_pgbackrest_service(s1, in) IN
              record_stanza(s2)

\* in.createRc: the exit code of stanza-create.
_initialise_stanza(s, in) ==
    IF ~in.leader THEN s
    ELSE IF is_blocked(s.status) /\ s.status.msg \notin S3_BLOCK_MESSAGES THEN s
    ELSE
      LET s1 == Call(SetStatus(s, MaintenanceStatus("initialising stanza")),
                     "stanza-create")
      IN IF in.createRc = TimeoutExitCode THEN Raise(s1, "TimeoutError")
         ELSE IF in.createRc # 0
         THEN SetStatus(s1, BlockedStatus(FAILED_TO_INITIALIZE_STANZA_ERROR_MESSAGE))
         ELSE LET s2 == start_stop_pgbackrest_service(s1, in) IN
              record_stanza(s2)

\* The Retrying loop with its bound off by one: it gives up one attempt late.
RECURSIVE check_attempts_one_more(_, _, _)
check_attempts_one_more(s, in, attempt) ==
    LET s1 == Call(reload_if_started(s, in), "check") IN
    IF in.rcs[attempt] = 0 THEN [s |-> s1, ok |-> TRUE]
    ELSE IF attempt > StopAfterAttempt THEN [s |-> s1, ok |-> FALSE]
    ELSE check_attempts_one_more(s1, in, attempt + 1)

\* The Retrying loop of check_stanza: attempt n runs the check; a non-zero
\* exit raises, and the loop gives up (RetryError) after StopAfterAttempt.
RECURSIVE check_attempts(_, _, _)
check_attempts(s, in, attempt) ==
    LET s1 == Call(reload_if_started(s, in), "check") IN
    IF in.rcs[attempt] = 0 THEN [s |-> s1, ok |-> TRUE]
    ELSE IF attempt >= StopAfterAttempt THEN [s |-> s1, ok |-> FALSE]
    ELSE check_attempts(s1, in, attempt + 1)

\* check_stanza without its last line: init-pgbackrest is removed only by
\* the rollback.
check_stanza_pop_on_rollback_only(s, in) ==
    IF ~in.leader \/ s.initPending = Absent THEN s
    ELSE
      LET s1 == SetStatus(update_config(s), MaintenanceStatus("checking stanza"))
          r == check_attempts(s1, in, 1)
      IN IF r.ok
         THEN SetStatus(r.s, ActiveStatus)
         ELSE SetStatus(
                update_config([r.s EXCEPT !.stanza = Absent,
                                          !.initPending = Absent]),
                BlockedStatus(FAILED_TO_INITIALIZE_STANZA_ERROR_MESSAGE))

\* check_stanza without the test of init-pgbackrest: the leader checks the
\* stanza whenever it is called.
check_stanza_without_marker(s, in) ==
    IF ~in.leader THEN s
    ELSE
      LET s1 == SetStatus(update_config(s), MaintenanceStatus("checking stanza"))
          r == check_attempts(s1, in, 1)
          s2 == IF r.ok
                THEN SetStatus(r.s, ActiveStatus)
                ELSE SetStatus(
                       update_config([r.s EXCEPT !.stanza = Absent,
                                                 !.initPending = Absent]),
                       BlockedStatus(FAILED_TO_INITIALIZE_STANZA_ERROR_MESSAGE))
      IN [s2 EXCEPT !.initPending = Absent]

\* in.rcs[n]: the exit code the n-th "check" invocation would give.
check_stanza(s, in) ==
    IF ~in.leader \/ s.initPending = Absent THEN s
    ELSE
      LET s1 == SetStatus(update_config(s), MaintenanceStatus("checking stanza"))
          r == check_attempts(s1, in, 1)
          s2 == IF r.ok
                THEN SetStatus(r.s, ActiveStatus)
                ELSE SetStatus(
                       update_config([r.s EXCEPT !.stanza = Absent,
                                                 !.initPending = Absent]),
                       BlockedStatus(FAILED_TO_INITIALIZE_STANZA_ERROR_MESSAGE))
      IN [s2 EXCEPT !.initPending = Absent]

\* ----------------------------------------------------- credentials events

\* in.bucket: the way _create_bucket_if_not_exists ends.
BucketStates == {"exists", "created", "session-valueerror", "head-timeout", "create-clienterror"}

\* Returns the state; s.exc names the exception it raises, if any.
_create_bucket_if_not_exists(s, in) ==
    IF missing_parameters(in.s3) THEN s
    ELSE IF in.bucket = "session-valueerror" THEN Raise(s, "ValueError")
    ELSE LET s1 == Call(s, "head_bucket") IN
         IF in.bucket = "exists" THEN s1
         ELSE IF in.bucket = "head-timeout" THEN Raise(s1, "ConnectTimeoutError")
         ELSE LET s2 == Call(s1, "create_bucket") IN
              IF in.bucket = "create-clienterror" THEN Raise(s2, "ClientError")
              ELSE s2

\* _render_pgbackrest_conf_file: [s, ok]
_render_pgbackrest_conf_file(s, in) ==
    IF missing_parameters(in.s3) THEN [s |-> s, ok |-> FALSE]
    ELSE [s |-> Call(s, "render"), ok |-> TRUE]

\* _on_s3_credential_changed with "except Exception": every failure of the
\* bucket check, a connection timeout included, blocks the unit.
_on_s3_credential_changed_catch_all(s, in) ==
    IF ~in.clusterInit THEN Call(s, "defer")
    ELSE
      LET r == _render_pgbackrest_conf_file(s, in) IN
      IF ~r.ok THEN r.s
      ELSE IF ~in.leader THEN r.s
      ELSE
        LET b == _create_bucket_if_not_exists(r.s, in) IN
        IF b.exc # ""
        THEN SetStatus(Raise(b, ""),
                       BlockedStatus(FAILED_TO_ACCESS_CREATE_BUCKET_ERROR_MESSAGE))
        ELSE
          LET c == can_use_s3_repository(b, in) IN
          IF c.s.exc # "" THEN c.s
          ELSE IF ~c.ok THEN SetStatus(c.s, BlockedStatus(c.msg))
          ELSE _initialise_stanza(c.s, in)

\* _on_s3_credential_changed that does not look at the answer of
\* can_use_s3_repository: the stanza is created whatever the validation said.
_on_s3_credential_changed_unvalidated(s, in) ==
    IF ~in.clusterInit THEN Call(s, "defer")
    ELSE
      LET r == _render_pgbackrest_conf_file(s, in) IN
      IF ~r.ok THEN r.s
      ELSE IF ~in.leader THEN r.s
      ELSE
        LET b == _create_bucket_if_not_exists(r.s, in) IN
        IF b.exc \in {"ClientError", "ValueError"}
        THEN SetStatus(Raise(b, ""),
                       BlockedStatus(FAILED_TO_ACCESS_CREATE_BUCKET_ERROR_MESSAGE))
        ELSE IF b.exc # "" THEN b
        ELSE
          LET c == can_use_s3_repository(b, in) IN
          IF c.s.exc # "" THEN c.s
          ELSE _initialise_stanza(c.s, in)

_on_s3_credential_changed(s, in) ==
    IF ~in.clusterInit THEN Call(s, "defer")
    ELSE
      LET r == _render_pgbackrest_conf_file(s, in) IN
      IF ~r.ok THEN r.s
      ELSE IF ~in.leader THEN r.s
      ELSE
        LET b == _create_bucket_if_not_exists(r.s, in) IN
        IF b.exc \in {"ClientError", "ValueError"}
        THEN SetStatus(Raise(b, ""),
                       BlockedStatus(FAILED_TO_ACCESS_CREATE_BUCKET_ERROR_MESSAGE))
        ELSE IF b.exc # "" THEN b
        ELSE
          LET c == can_use_s3_repository(b, in) IN
          IF c.s.exc # "" THEN c.s
          ELSE IF ~c.ok THEN SetStatus(c.s, BlockedStatus(c.msg))
          ELSE _initialise_stanza(c.s, in)

\* _on_s3_credential_gone without the test of the message: every blocked
\* unit becomes active.
_on_s3_credential_gone_any_block(s) ==
    IF is_blocked(s.status)
    THEN SetStatus(s, ActiveStatus)
    ELSE s

_on_s3_credential_gone(s) ==
    IF is_blocked(s.status) /\ s.status.msg \in S3_BLOCK_MESSAGES
    THEN SetStatus(s, ActiveStatus)
    ELSE s

\* ------------------------------------------------------------ create-backup

\* self._change_connectivity_to_database(connectivity)
_change_connectivity_to_database(s, on) ==
    update_config([s EXCEPT !.connectivity = IF on THEN "on" ELSE "off"])

\* self._upload_content_to_s3(...): never raises, returns whether it worked.
_upload_content_to_s3(s, what) == Call(s, what)

\* The command of _run_backup without "--no-backup-standby": the backup is
\* never forced to run on the primary.
backup_command_never_forced(primary) ==
    "pgbackrest --stanza=" \o stanza_name
        \o " --log-level-console=debug --type=full backup"

\* The command line of _run_backup (the executable and its configuration
\* file argument written as "pgbackrest"); primary: charm.is_primary at
\* line 541.
backup_command(primary) ==
    "pgbackrest --stanza=" \o stanza_name
        \o " --log-level-console=debug --type=full backup"
        \o (IF primary THEN " --no-backup-standby" ELSE "")

\* _run_backup without the search of stdout for the "new backup label" line:
\* the log of a failed backup is always keyed by the current time.
_run_backup_always_now_label(s, in) ==
    LET s1 == Call(s, backup_command(in.primaryRun)) IN
    IF in.backupRc # 0
    THEN Fail(_upload_content_to_s3(s1, "upload-log:now-label"),
              "Failed to backup PostgreSQL with error")
    ELSE
      LET l == _list_backups(in.info, TRUE)
          s2 == Call(s1, "info")
      IN IF l.err THEN Fail(s2, "Failed to retrieve backup id")
         ELSE IF l.list = << >> THEN Raise(s2, "IndexError")
         ELSE LET s3 == _upload_content_to_s3(s2, "upload-log:listed-id") IN
              IF ~in.logUpload THEN Fail(s3, "Error uploading logs to S3")
              ELSE SetResults(s3, "backup created")

\* _run_backup that does not look at the result of the log upload.
_run_backup_upload_unchecked(s, in) ==
    LET s1 == Call(s, backup_command(in.primaryRun)) IN
    IF in.backupRc # 0
    THEN Fail(_upload_content_to_s3(
                  s1, IF in.labelInStdout THEN "upload-log:stdout-label"
                                          ELSE "upload-log:now-label"),
              "Failed to backup PostgreSQL with error")
    ELSE
      LET l == _list_backups(in.info, TRUE)
          s2 == Call(s1, "info")
      IN IF l.err THEN Fail(s2, "Failed to retrieve backup id")
         ELSE IF l.list = << >> THEN Raise(s2, "IndexError")
         ELSE SetResults(_upload_content_to_s3(s2, "upload-log:listed-id"),
                         "backup created")

\* in.primaryRun: charm.is_primary at line 541; in.backupRc: the exit code
\* of the backup command; in.labelInStdout: stdout has the "new backup
\* label" line; in.logUpload: the log upload works; in.info: the info output.
_run_backup(s, in) ==
    LET s1 == Call(s, backup_command(in.primaryRun)) IN
    IF in.backupRc # 0
    THEN Fail(_upload_content_to_s3(
                  s1, IF in.labelInStdout THEN "upload-log:stdout-label"
                                          ELSE "upload-log:now-label"),
              "Failed to backup PostgreSQL with error")
    ELSE
      LET l == _list_backups(in.info, TRUE)
          s2 == Call(s1, "info")
      IN IF l.err THEN Fail(s2, "Failed to retrieve backup id")
         ELSE IF l.list = << >> THEN Raise(s2, "IndexError")
         ELSE LET s3 == _upload_content_to_s3(s2, "upload-log:listed-id") IN
              IF ~in.logUpload THEN Fail(s3, "Error uploading logs to S3")
              ELSE SetResults(s3, "backup created")

\* _on_create_backup_action that goes on after a failed metadata upload
\* (the return after event.fail left out).
_on_create_backup_action_no_abort(s, in) ==
    LET v == _can_unit_perform_backup(s, in) IN
    IF ~v.ok THEN Fail(s, v.msg)
    ELSE
      LET s0 == _upload_content_to_s3(s, "upload-metadata")
          s1 == IF ~in.metaUpload
                THEN Fail(s0, "Failed to upload metadata to provided S3") ELSE s0
          s2 == IF ~in.primaryPre
                THEN _change_connectivity_to_database(s1, FALSE) ELSE s1
          s3 == update_config_backup(
                    SetStatus(s2, MaintenanceStatus("creating backup")), TRUE)
          s4 == _run_backup(s3, in)
      IN IF s4.exc # "" THEN s4
         ELSE
           LET s5 == IF ~in.primaryPost
                     THEN _change_connectivity_to_database(s4, TRUE) ELSE s4
           IN SetStatus(update_config_backup(s5, FALSE), ActiveStatus)

\* in.metaUpload: the metadata upload works; in.primaryPre / in.primaryPost:
\* charm.is_primary at lines 510 and 522.
_on_create_backup_action(s, in) ==
    LET v == _can_unit_perform_backup(s, in) IN
    IF ~v.ok THEN Fail(s, v.msg)
    ELSE
      LET s1 == _upload_content_to_s3(s, "upload-metadata") IN
      IF ~in.metaUpload THEN Fail(s1, "Failed to upload metadata to provided S3")
      ELSE
        LET s2 == IF ~in.primaryPre
                  THEN _change_connectivity_to_database(s1, FALSE) ELSE s1
            s3 == update_config_backup(
                      SetStatus(s2, MaintenanceStatus("creating backup")), TRUE)
            s4 == _run_backup(s3, in)
        IN IF s4.exc # "" THEN s4
           ELSE
             LET s5 == IF ~in.primaryPost
                       THEN _change_connectivity_to_database(s4, TRUE) ELSE s4
             IN SetStatus(update_config_backup(s5, FALSE), ActiveStatus)

\* ------------------------------------------------------------- list-backups

\* _on_list_backups_action without the check of the backup settings.
_on_list_backups_action_unchecked(s, in) ==
    LET s1 == Call(s, "info") IN
    IF in.info.rc # 0
    THEN Fail(s1, "Failed to list PostgreSQL backups with error")
    ELSE IF in.info.repos = << >> THEN Raise(s1, "IndexError")
    ELSE SetResults(s1, "backups")

_on_list_backups_action(s, in) ==
    LET v == _are_backup_settings_ok(in) IN
    IF ~v.ok THEN Fail(s, v.msg)
    ELSE LET s1 == Call(s, "info") IN
         IF in.info.rc # 0
         THEN Fail(s1, "Failed to list PostgreSQL backups with error")
         ELSE IF in.info.repos = << >> THEN Raise(s1, "IndexError")
         ELSE SetResults(s1, "backups")

\* ------------------------------------------------------------------ restore

\* A restore action without a backup-id parameter.
NoId == [id |-> 0]

\* _pre_restore_checks that refuses every blocked unit, whatever the message.
_pre_restore_checks_any_block(s, in) ==
    LET v == _are_backup_settings_ok(in) IN
    IF ~v.ok THEN [ok |-> FALSE, msg |-> v.msg]
    ELSE IF in.bid = NoId
    THEN [ok |-> FALSE, msg |-> "Missing backup-id to restore"]
    ELSE IF is_blocked(s.status)
    THEN [ok |-> FALSE, msg |-> "Cluster or unit is in a blocking state"]
    ELSE IF in.planned > 1
    THEN [ok |-> FALSE,
          msg |-> "Unit cannot restore backup as there are more than one unit in the cluster"]
    ELSE IF ~in.leader
    THEN [ok |-> FALSE,
          msg |-> "Unit cannot restore backup as it was not elected the leader unit yet"]
    ELSE [ok |-> TRUE, msg |-> ""]

\* _pre_restore_checks that also refuses a unit in maintenance.
_pre_restore_checks_refusing_maintenance(s, in) ==
    LET v == _are_backup_settings_ok(in) IN
    IF ~v.ok THEN [ok |-> FALSE, msg |-> v.msg]
    ELSE IF in.bid = NoId
    THEN [ok |-> FALSE, msg |-> "Missing backup-id to restore"]
    ELSE IF (is_blocked(s.status)
               /\ s.status.msg # ANOTHER_CLUSTER_REPOSITORY_ERROR_MESSAGE)
            \/ s.status.kind = "maintenance"
    THEN [ok |-> FALSE, msg |-> "Cluster or unit is in a blocking state"]
    ELSE IF in.planned > 1
    THEN [ok |-> FALSE,
          msg |-> "Unit cannot restore backup as there are more than one unit in the cluster"]
    ELSE IF ~in.leader
    THEN [ok |-> FALSE,
          msg |-> "Unit cannot restore backup as it was not elected the leader unit yet"]
    ELSE [ok |-> TRUE, msg |-> ""]

\* in.bid: event.params.get("backup-id"); in.planned; in.leader
_pre_restore_checks(s, in) ==
    LET v == _are_backup_settings_ok(in) IN
    IF ~v.ok THEN [ok |-> FALSE, msg |-> v.msg]
    ELSE IF in.bid = NoId
    THEN [ok |-> FALSE, msg |-> "Missing backup-id to restore"]
    ELSE IF is_blocked(s.status)
            /\ s.status.msg # ANOTHER_CLUSTER_REPOSITORY_ERROR_MESSAGE
    THEN [ok |-> FALSE, msg |-> "Cluster or unit is in a blocking state"]
    ELSE IF in.planned > 1
    THEN [ok |-> FALSE,
          msg |-> "Unit cannot restore backup as there are more than one unit in the cluster"]
    ELSE IF ~in.leader
    THEN [ok |-> FALSE,
          msg |-> "Unit cannot restore backup as it was not elected the leader unit yet"]
    ELSE [ok |-> TRUE, msg |-> ""]

\* _empty_data_files that swallows the OSError of rmtree and returns True.
_empty_data_files_ignoring_errors(s, in) ==
    IF in.dirExists
    THEN [s |-> Call(s, "rmtree"), ok |-> TRUE]
    ELSE [s |-> s, ok |-> TRUE]

\* in.dirExists: the data directory exists; in.rmOk: shutil.rmtree works.
\* Returns [s, ok].
_empty_data_files(s, in) ==
    IF in.dirExists
    THEN [s |-> Call(s, "rmtree"), ok |-> in.rmOk]
    ELSE [s |-> s, ok |-> TRUE]

\* self.charm._patroni.start_patroni()
start_patroni(s) == Call(s, "start")
\* self.charm._patroni.stop_patroni()
stop_patroni(s) == Call(s, "stop")

_restart_database(s) ==
    start_patroni(update_config([s EXCEPT !.restoringBackup = NoLabel]))

\* _on_restore_action that stops the database before it resolves the
\* backup-id.
_on_restore_action_stop_first(s, in) ==
    LET v == _pre_restore_checks(s, in) IN
    IF ~v.ok THEN Fail(s, v.msg)
    ELSE
      LET l == _list_backups(in.info, FALSE)
          s1 == Call(stop_patroni(s), "info")
      IN
      IF l.err THEN Fail(s1, "Failed to retrieve backup id")
      ELSE IF ~InList(l.list, in.bid) THEN Fail(s1, "Invalid backup-id")
      ELSE
        LET s2 == SetStatus(s1, MaintenanceStatus("restoring backup")) IN
        IF ~in.stopOk THEN Fail(s2, "Failed to stop database service")
        ELSE
          LET e == _empty_data_files(s2, in) IN
          IF ~e.ok
          THEN _restart_database(
                   Fail(e.s, "Failed to remove contents of the data directory"))
          ELSE
            LET s3 == update_config(
                        [e.s EXCEPT !.restoringBackup = LabelOfBackupId(in.bid),
                                    !.restoreStanza = StanzaOf(l.list, in.bid)])
                s4 == Call(start_patroni(s3), "patronictl-remove")
            IN IF in.remove = "timeout" THEN Raise(s4, "TimeoutExpired")
               ELSE IF in.remove # "ok"
               THEN Fail(s4, "Failed to remove previous cluster information with error")
               ELSE SetResults(s4, "restore started")

\* _on_restore_action that does not look at what stop_patroni returns.
_on_restore_action_ignoring_stop(s, in) ==
    LET v == _pre_restore_checks(s, in) IN
    IF ~v.ok THEN Fail(s, v.msg)
    ELSE
      LET l == _list_backups(in.info, FALSE)
          s1 == Call(s, "info")
      IN
      IF l.err THEN Fail(s1, "Failed to retrieve backup id")
      ELSE IF ~InList(l.list, in.bid) THEN Fail(s1, "Invalid backup-id")
      ELSE
        LET s2 == stop_patroni(SetStatus(s1, MaintenanceStatus("restoring backup")))
            e == _empty_data_files(s2, in)
        IN
          IF ~e.ok
          THEN _restart_database(
                   Fail(e.s, "Failed to remove contents of the data directory"))
          ELSE
            LET s3 == update_config(
                        [e.s EXCEPT !.restoringBackup = LabelOfBackupId(in.bid),
                                    !.restoreStanza = StanzaOf(l.list, in.bid)])
                s4 == Call(start_patroni(s3), "patronictl-remove")
            IN IF in.remove = "timeout" THEN Raise(s4, "TimeoutExpired")
               ELSE IF in.remove # "ok"
               THEN Fail(s4, "Failed to remove previous cluster information with error")
               ELSE SetResults(s4, "restore started")

\* _on_restore_action that undoes the directive when patronictl remove fails.
_on_restore_action_rolling_back(s, in) ==
    LET v == _pre_restore_checks(s, in) IN
    IF ~v.ok THEN Fail(s, v.msg)
    ELSE
      LET l == _list_backups(in.info, FALSE)
          s1 == Call(s, "info")
      IN
      IF l.err THEN Fail(s1, "Failed to retrieve backup id")
      ELSE IF ~InList(l.list, in.bid) THEN Fail(s1, "Invalid backup-id")
      ELSE
        LET s2 == stop_patroni(SetStatus(s1, MaintenanceStatus("restoring backup"))) IN
        IF ~in.stopOk THEN Fail(s2, "Failed to stop database service")
        ELSE
          LET e == _empty_data_files(s2, in) IN
          IF ~e.ok
          THEN _restart_database(
                   Fail(e.s, "Failed to remove contents of the data directory"))
          ELSE
            LET s3 == update_config(
                        [e.s EXCEPT !.restoringBackup = LabelOfBackupId(in.bid),
                                    !.restoreStanza = StanzaOf(l.list, in.bid)])
                s4 == Call(start_patroni(s3), "patronictl-remove")
            IN IF in.remove = "timeout" THEN Raise(s4, "TimeoutExpired")
               ELSE IF in.remove # "ok"
               THEN _restart_database(
                        Fail(s4, "Failed to remove previous cluster information with error"))
               ELSE SetResults(s4, "restore started")

\* in.stopOk: stop_patroni() returns True; in.remove: how patronictl remove
\* (timeout=10) ends: "ok" (exit 0), "error" (non-zero exit) or "timeout".
_on_restore_action(s, in) ==
    LET v == _pre_restore_checks(s, in) IN
    IF ~v.ok THEN Fail(s, v.msg)
    ELSE
      LET l == _list_backups(in.info, FALSE)
          s1 == Call(s, "info")
      IN
      IF l.err THEN Fail(s1, "Failed to retrieve backup id")
      ELSE IF ~InList(l.list, in.bid) THEN Fail(s1, "Invalid backup-id")
      ELSE
        LET s2 == stop_patroni(SetStatus(s1, MaintenanceStatus("restoring backup"))) IN
        IF ~in.stopOk THEN Fail(s2, "Failed to stop database service")
        ELSE
          LET e == _empty_data_files(s2, in) IN
          IF ~e.ok
          THEN _restart_database(
                   Fail(e.s, "Failed to remove contents of the data directory"))
          ELSE
            LET s3 == update_config(
                        [e.s EXCEPT !.restoringBackup = LabelOfBackupId(in.bid),
                                    !.restoreStanza = StanzaOf(l.list, in.bid)])
                s4 == Call(start_patroni(s3), "patronictl-remove")
            IN IF in.remove = "timeout" THEN Raise(s4, "TimeoutExpired")
               ELSE IF in.remove # "ok"
               THEN Fail(s4, "Failed to remove previous cluster information with error")
               ELSE SetResults(s4, "restore started")

\* ------------------------------------------------------------- the inputs

PlannedUnits == 1..MaxPlannedUnits
BackupIds == {[id |-> t] : t \in 1..(MaxTs + 1)}
ExitCodes == {0, 1, TimeoutExitCode}

\* The backups of a repository, in ascending creation time: at each time
\* there is no backup, or one of some type that finished or failed.
Slots(kinds) ==
    {[present |-> FALSE, kind |-> "F", error |-> FALSE]}
    \cup [present : {TRUE}, kind : kinds, error : BOOLEAN]

RECURSIVE CatalogFrom(_, _)
CatalogFrom(f, t) ==
    IF t > MaxTs THEN << >>
    ELSE (IF f[t].present
          THEN << [label |-> Label(t, f[t].kind), error |-> f[t].error] >>
          ELSE << >>) \o CatalogFrom(f, t + 1)

Catalogs(kinds) == {CatalogFrom(f, 1) : f \in [Timestamps -> Slots(kinds)]}

NoInfo == [rc |-> 0, repos |-> << >>]
InfosOf(names, kinds) ==
    {[rc |-> 1, repos |-> << >>], NoInfo}
    \cup {[rc |-> 0, repos |-> << [name |-> n, backup |-> c] >>] :
            n \in names, c \in Catalogs(kinds)}
\* A repository that restore may read: this cluster's or another's, with
\* backups of every type.
Infos == InfosOf({stanza_name, OtherStanza}, LabelKinds)
\* The repository create-backup and list-backups read: this cluster's, which
\* holds the full backups that create-backup makes (--type=full).
OwnInfos == InfosOf({stanza_name}, {"F"})

\* The repositories whose catalog is listed on its own: up to MaxListed
\* backups, in ascending creation time.
RECURSIVE ListedFrom(_, _)
ListedFrom(f, t) ==
    IF t > MaxListed THEN << >>
    ELSE (IF f[t].present
          THEN << [label |-> Label(t, f[t].kind), error |-> f[t].error] >>
          ELSE << >>) \o ListedFrom(f, t + 1)

ListedInfos ==
    {[rc |-> 1, repos |-> << >>], NoInfo}
    \cup {[rc |-> 0, repos |-> << [name |-> n, backup |-> ListedFrom(f, 1)] >>] :
            n \in {stanza_name, OtherStanza},
            f \in [1..MaxListed -> Slots(LabelKinds)]}

\* What the info output says about backup-id bid, written down with the run:
\* the exit code, the repository's name, its number of backups, and whether
\* the backup with that id is absent, failed or finished, and its type.
EntryAt(info, bid) ==
    LET b == Head(info.repos).backup
        hit == {i \in DOMAIN b : b[i].label.ts = bid.id}
    IN IF hit = {} THEN [entry |-> "absent", kind |-> ""]
       ELSE LET i == CHOOSE i \in hit : TRUE IN
            [entry |-> IF b[i].error THEN "failed" ELSE "finished",
             kind |-> b[i].label.kind]

InfoSummary(info, bid) ==
    IF info.rc # 0 \/ info.repos = << >>
    THEN [rc |-> info.rc, repo |-> "", n |-> 0, entry |-> "absent", kind |-> ""]
    ELSE [rc |-> 0, repo |-> Head(info.repos).name,
          n |-> Len(Head(info.repos).backup),
          entry |-> EntryAt(info, bid).entry, kind |-> EntryAt(info, bid).kind]

\* The repository names an info output may list.
RECURSIVE NameLists(_)
NameLists(n) ==
    IF n = 0 THEN {<< >>}
    ELSE LET shorter == NameLists(n - 1) IN
         shorter \cup {Append(l, x) : l \in {k \in shorter : Len(k) = n - 1},
                                      x \in {stanza_name, OtherStanza}}

NoProbe == [out |-> "ok", names |-> << >>]
Probes ==
    {[out |-> o, names |-> << >>] : o \in {"timeout", "error"}}
    \cup {[out |-> "ok", names |-> l] : l \in NameLists(MaxRepos)}

\* The exit codes of the check invocations, one more than the loop may use;
\* a stanza that passed the check keeps passing it.
AllZero == [n \in 1..(StopAfterAttempt + 1) |-> 0]
CheckRcs ==
    {rcs \in [1..(StopAfterAttempt + 1) -> {0, 1}] :
        \A i \in DOMAIN rcs : \A j \in DOMAIN rcs :
            (i < j /\ rcs[i] = 0) => rcs[j] = 0}

\* charm.is_primary as create-backup reads it at lines 106, 510, 541 and 522:
\* the role changes at most MaxRoleChanges times while the action runs.
Changes(r) == Cardinality({i \in 1..3 : r[i] # r[i + 1]})
RoleReads == {r \in [1..4 -> BOOLEAN] : Changes(r) <= MaxRoleChanges}

\* ------------------------------------------------------------ the actions

Init ==
    /\ status = ActiveStatus
    /\ stanza = Absent
    /\ initPending = Absent
    /\ restoringBackup = NoLabel
    /\ restoreStanza = Absent
    /\ connectivity = "on"
    /\ creatingBackup = FALSE
    /\ op = "idle"
    /\ inp = NoInput
    /\ calls = << >>
    /\ reports = << >>
    /\ exc = ""

\* The handler has returned (or raised): the framework is ready to dispatch
\* the next event.
Return ==
    /\ op # "idle"
    /\ op' = "idle"
    /\ inp' = NoInput
    /\ calls' = << >>
    /\ reports' = << >>
    /\ exc' = ""
    /\ UNCHANGED << status, stanza, initPending, restoringBackup, restoreStanza,
                    connectivity, creatingBackup >>

\* Between two handler runs another part of the charm sets the unit status.
CharmSetsStatus ==
    /\ op = "idle"
    /\ \E st \in {ActiveStatus, BlockedStatus(OTHER_BLOCK_MESSAGE)} :
          status # st /\ status' = st
    /\ UNCHANGED << stanza, initPending, restoringBackup, restoreStanza,
                    connectivity, creatingBackup, op, inp, calls, reports, exc >>

\* blockedMsg: charm.unit.status.message as read at line 355 when
\* charm.is_blocked, "" when the unit is not blocked.
S3ChangedIn(ci, s3, ld, b, p, st, rc, sv) ==
    [clusterInit |-> ci, s3 |-> s3, leader |-> ld, bucket |-> b, probe |-> p,
     started |-> st, createRc |-> rc, svc |-> sv,
     blockedMsg |-> IF is_blocked(status) THEN status.msg ELSE ""]

OnS3CredentialChanged ==
    \E ci \in BOOLEAN, s3 \in S3States, ld \in BOOLEAN :
      IF ~(ci /\ s3 = "ok" /\ ld)
      THEN LET in == S3ChangedIn(ci, s3, ld, "exists", NoProbe, TRUE, 0, "stop")
           IN Run("s3-changed", in, _on_s3_credential_changed(Cur, in))
      ELSE \E b \in BucketStates :
        IF b \notin {"exists", "created"}
        THEN LET in == S3ChangedIn(ci, s3, ld, b, NoProbe, TRUE, 0, "stop")
             IN Run("s3-changed", in, _on_s3_credential_changed(Cur, in))
        ELSE \E p \in Probes :
          LET in0 == S3ChangedIn(ci, s3, ld, b, p, TRUE, 0, "stop")
              c == can_use_s3_repository(Cur, in0)
          IN
          IF c.s.exc # "" \/ (~c.ok /\ c.msg # ANOTHER_CLUSTER_REPOSITORY_ERROR_MESSAGE)
          THEN Run("s3-changed", in0, _on_s3_credential_changed(Cur, in0))
          ELSE IF ~c.ok
          THEN \E st \in BOOLEAN :
               LET in == S3ChangedIn(ci, s3, ld, b, p, st, 0, "stop")
               IN Run("s3-changed", in, _on_s3_credential_changed(Cur, in))
          ELSE \E rc \in ExitCodes :
            IF rc # 0
            THEN LET in == S3ChangedIn(ci, s3, ld, b, p, TRUE, rc, "stop")
                 IN Run("s3-changed", in, _on_s3_credential_changed(Cur, in))
            ELSE \E sv \in SvcStates :
                 LET in == S3ChangedIn(ci, s3, ld, b, p, TRUE, rc, sv)
                 IN Run("s3-changed", in, _on_s3_credential_changed(Cur, in))

\* blockedMsg: charm.unit.status.message as read at line 474 when
\* charm.is_blocked, "" when the unit is not blocked.
OnS3CredentialGone ==
    Run("s3-gone",
        [blockedMsg |-> IF is_blocked(status) THEN status.msg ELSE ""],
        _on_s3_credential_gone(Cur))

\* _initialise_stanza called on its own, by any unit and with any S3 relation.
InitialiseStanza ==
    \E ld \in BOOLEAN :
      LET in0 == S3ChangedIn(TRUE, "ok", ld, "exists", NoProbe, TRUE, 0, "stop") IN
      IF _initialise_stanza(Cur, in0).calls = << >>
      THEN Run("initialise-stanza", in0, _initialise_stanza(Cur, in0))
      ELSE \E rc \in ExitCodes :
        IF rc # 0
        THEN LET in == [in0 EXCEPT !.createRc = rc]
             IN Run("initialise-stanza", in, _initialise_stanza(Cur, in))
        ELSE \E s3 \in S3States :
          IF s3 # "ok"
          THEN LET in == [in0 EXCEPT !.s3 = s3]
               IN Run("initialise-stanza", in, _initialise_stanza(Cur, in))
          ELSE \E sv \in SvcStates :
               LET in == [in0 EXCEPT !.svc = sv]
               IN Run("initialise-stanza", in, _initialise_stanza(Cur, in))

\* The charm calls check_stanza.
CheckStanza ==
    \E ld \in BOOLEAN :
      IF ~ld \/ initPending = Absent
      THEN LET in == [leader |-> ld, started |-> TRUE, rcs |-> AllZero]
           IN Run("check-stanza", in, check_stanza(Cur, in))
      ELSE \E rcs \in CheckRcs, st \in BOOLEAN :
           LET in == [leader |-> ld, started |-> st, rcs |-> rcs]
           IN Run("check-stanza", in, check_stanza(Cur, in))

\* The charm calls can_use_s3_repository; the (ok, message) it returns is
\* written down as the run's report.
CanUseS3Repository ==
    \E ld \in BOOLEAN, p \in Probes :
      LET in0 == [leader |-> ld, probe |-> p, started |-> TRUE]
          r0 == can_use_s3_repository(Cur, in0)
      IN \E st \in (IF r0.msg = ANOTHER_CLUSTER_REPOSITORY_ERROR_MESSAGE
                    THEN BOOLEAN ELSE {TRUE}) :
         LET in == [in0 EXCEPT !.started = st]
             r == can_use_s3_repository(Cur, in)
         IN Run("can-use-s3", in,
                IF r.s.exc # "" THEN r.s
                ELSE [r.s EXCEPT !.reports =
                        << [kind |-> IF r.ok THEN "ok" ELSE "fail", msg |-> r.msg] >>])

BackupIn(tls, role, pl, st, s3, mu, rc, lb, lu, info) ==
    [tls |-> tls, primary |-> role[1], planned |-> pl, started |-> st, s3 |-> s3,
     metaUpload |-> mu, primaryPre |-> role[2], primaryRun |-> role[3],
     backupRc |-> rc, labelInStdout |-> lb, logUpload |-> lu, info |-> info,
     primaryPost |-> role[4]]

\* The role, read once.
Steady(pr) == [i \in 1..4 |-> pr]

\* What is written down of a run's inputs: the info output as its summary.
Noted(in, bid) == [in EXCEPT !.info = InfoSummary(in.info, bid)]

OnCreateBackupAction ==
    \E tls \in BOOLEAN, pr \in BOOLEAN, pl \in PlannedUnits, st \in BOOLEAN,
       s3 \in S3States :
      LET in0 == BackupIn(tls, Steady(pr), pl, st, s3, TRUE, 0, FALSE, TRUE, NoInfo) IN
      IF ~_can_unit_perform_backup(Cur, in0).ok
      THEN Run("create-backup", Noted(in0, NoId), _on_create_backup_action(Cur, in0))
      ELSE \E mu \in BOOLEAN :
        IF ~mu
        THEN LET in == [in0 EXCEPT !.metaUpload = FALSE]
             IN Run("create-backup", Noted(in, NoId), _on_create_backup_action(Cur, in))
        ELSE \E role \in {r \in RoleReads : r[1] = pr}, rc \in {0, 1} :
          IF rc # 0
          THEN \E lb \in BOOLEAN, lu \in BOOLEAN :
               LET in == BackupIn(tls, role, pl, st, s3, mu, rc, lb, lu, NoInfo)
               IN Run("create-backup", Noted(in, NoId), _on_create_backup_action(Cur, in))
          ELSE \E info \in OwnInfos :
               IF _list_backups(info, TRUE).list = << >>
               THEN LET in == BackupIn(tls, role, pl, st, s3, mu, rc, FALSE, TRUE, info)
                    IN Run("create-backup", Noted(in, NoId), _on_create_backup_action(Cur, in))
               ELSE \E lu \in BOOLEAN :
                    LET in == BackupIn(tls, role, pl, st, s3, mu, rc, FALSE, lu, info)
                    IN Run("create-backup", Noted(in, NoId), _on_create_backup_action(Cur, in))

OnListBackupsAction ==
    \E s3 \in S3States :
      IF s3 # "ok"
      THEN LET in == [s3 |-> s3, info |-> NoInfo]
           IN Run("list-backups", Noted(in, NoId), _on_list_backups_action(Cur, in))
      ELSE \E info \in OwnInfos :
           LET in == [s3 |-> s3, info |-> info]
           IN Run("list-backups", Noted(in, NoId), _on_list_backups_action(Cur, in))

\* unitStatus: charm.unit.status as _pre_restore_checks reads it (lines
\* 721-724), before the run changes it.
RestoreIn(s3, bid, pl, ld, info, so, de, rm, rv) ==
    [s3 |-> s3, bid |-> bid, planned |-> pl, leader |-> ld, info |-> info,
     stopOk |-> so, dirExists |-> de, rmOk |-> rm, remove |-> rv,
     unitStatus |-> status]

OnRestoreAction ==
    \E s3 \in S3States, bid \in BackupIds \cup {NoId}, pl \in PlannedUnits, ld \in BOOLEAN :
      LET in0 == RestoreIn(s3, bid, pl, ld, NoInfo, TRUE, TRUE, TRUE, "ok") IN
      IF ~_pre_restore_checks(Cur, in0).ok
      THEN Run("restore", Noted(in0, bid), _on_restore_action(Cur, in0))
      ELSE \E info \in Infos :
        LET l == _list_backups(info, FALSE) IN
        IF l.err \/ ~InList(l.list, bid)
        THEN LET in == [in0 EXCEPT !.info = info]
             IN Run("restore", Noted(in, bid), _on_restore_action(Cur, in))
        ELSE \E so \in BOOLEAN :
          IF ~so
          THEN LET in == RestoreIn(s3, bid, pl, ld, info, so, TRUE, TRUE, "ok")
               IN Run("restore", Noted(in, bid), _on_restore_action(Cur, in))
          ELSE \E de \in BOOLEAN, rm \in BOOLEAN :
            IF ~de /\ ~rm THEN FALSE  \* rmtree is not called: nothing to read
            ELSE IF de /\ ~rm
            THEN LET in == RestoreIn(s3, bid, pl, ld, info, so, de, rm, "ok")
                 IN Run("restore", Noted(in, bid), _on_restore_action(Cur, in))
            ELSE \E rv \in {"ok", "error", "timeout"} :
                 LET in == RestoreIn(s3, bid, pl, ld, info, so, de, rm, rv)
                 IN Run("restore", Noted(in, bid), _on_restore_action(Cur, in))

\* What a function called on its own returned, written down as a report.
Returned(v) == [kind |-> "returned", value |-> v]

\* _list_backups called on its own, twice on the same info output: with the
\* failed backups and without them.
ListBackups ==
    \E info \in ListedInfos :
      Run("_list_backups", [info |-> info],
          [Call(Call(Cur, "info"), "info") EXCEPT !.reports =
              << Returned(_list_backups(info, TRUE)),
                 Returned(_list_backups(info, FALSE)) >>])

\* The two conversions applied to a backup-id of the listing: to the label,
\* as restore does at line 671, and back, as the listing does.
ConvertBackupId ==
    \E info \in ListedInfos :
      LET l == _list_backups(info, TRUE).list IN
      \E i \in DOMAIN l :
        LET label == LabelOfBackupId(l[i].id) IN
        Run("convert-backup-id", [info |-> info, bid |-> l[i].id],
            [Call(Cur, "info") EXCEPT !.reports =
                << Returned(label), Returned(BackupIdOfLabel(label)) >>])

Next ==
    \/ OnS3CredentialChanged
    \/ OnS3CredentialGone
    \/ CheckStanza
    \/ CanUseS3Repository
    \/ OnCreateBackupAction
    \/ OnListBackupsAction
    \/ OnRestoreAction
    \/ CharmSetsStatus
    \/ Return

Spec == Init /\ [][Next]_vars

\* The stanza manager alone: the credentials events and the stanza check.
NextStanza ==
    \/ OnS3CredentialChanged
    \/ OnS3CredentialGone
    \/ CheckStanza
    \/ CanUseS3Repository
    \/ CharmSetsStatus
    \/ Return

SpecStanza == Init /\ [][NextStanza]_vars

\* The stanza manager with _initialise_stanza also called on its own.
NextInitialise ==
    \/ OnS3CredentialChanged
    \/ OnS3CredentialGone
    \/ InitialiseStanza
    \/ CheckStanza
    \/ CanUseS3Repository
    \/ CharmSetsStatus
    \/ Return

SpecInitialise == Init /\ [][NextInitialise]_vars

\* The stanza manager and the create-backup and list-backups actions.
NextBackup ==
    \/ OnS3CredentialChanged
    \/ OnS3CredentialGone
    \/ CheckStanza
    \/ CanUseS3Repository
    \/ OnCreateBackupAction
    \/ OnListBackupsAction
    \/ CharmSetsStatus
    \/ Return

SpecBackup == Init /\ [][NextBackup]_vars

\* The stanza manager and the restore action.
NextRestore ==
    \/ OnS3CredentialChanged
    \/ OnS3CredentialGone
    \/ CheckStanza
    \/ CanUseS3Repository
    \/ OnRestoreAction
    \/ CharmSetsStatus
    \/ Return

SpecRestore == Init /\ [][NextRestore]_vars

\* The three actions, on a unit whose stanza is registered by
\* _initialise_stanza.
NextActions ==
    \/ InitialiseStanza
    \/ OnCreateBackupAction
    \/ OnListBackupsAction
    \/ OnRestoreAction
    \/ CharmSetsStatus
    \/ Return

SpecActions == Init /\ [][NextActions]_vars

\* Every operation that reads unit.is_leader(): the stanza manager, with
\* _initialise_stanza also called on its own, and the restore action.
NextLeadership ==
    \/ OnS3CredentialChanged
    \/ OnS3CredentialGone
    \/ InitialiseStanza
    \/ CheckStanza
    \/ CanUseS3Repository
    \/ OnRestoreAction
    \/ CharmSetsStatus
    \/ Return

SpecLeadership == Init /\ [][NextLeadership]_vars

\* The catalog listing and the conversions between backup-ids and labels.
NextListing ==
    \/ ListBackups
    \/ ConvertBackupId
    \/ Return

SpecListing == Init /\ [][NextListing]_vars

\* ===================================================== the checked claims

\* The engine's backup command, in its two forms.
EngineBackupCalls == {backup_command(TRUE), backup_command(FALSE)}
BackupInvoked(cs) == \E i \in DOMAIN cs : cs[i] \in EngineBackupCalls
FailReport(m) == [kind |-> "fail", msg |-> m]
\* The action reported failure and nothing else.
ReportsFailure(rs) == rs # << >> /\ \A i \in DOMAIN rs : rs[i].kind = "fail"
\* The reason of the first failing check of a list of checks, "" if all hold.
FirstFailing(checks) ==
    IF \E i \in DOMAIN checks : checks[i].fails
    THEN LET first == CHOOSE i \in DOMAIN checks :
                         /\ checks[i].fails
                         /\ \A j \in 1..(i - 1) : ~checks[j].fails
         IN checks[first].reason
    ELSE ""
\* What a handler may change, apart from the status.
Persistent ==
    << stanza, initPending, restoringBackup, restoreStanza, connectivity,
       creatingBackup >>

\* ---- C1
\* C1: a create-backup run of a unit that is not the primary (and so turned
\* the connectivity off) ends with the connectivity "on" and a configuration
\* push after the engine's backup command, whatever the backup command, the
\* re-listing of the catalog and the log upload did.
C1_ConnectivityRestored ==
    (op = "create-backup" /\ BackupInvoked(calls)
        /\ ~inp.primaryPre /\ ~inp.primaryRun /\ ~inp.primaryPost)
    => /\ connectivity = "on"
       /\ \E i \in DOMAIN calls : \E j \in DOMAIN calls :
             i < j /\ calls[i] \in EngineBackupCalls /\ calls[j] = "update_config"

\* ---- C2
\* C2: a create-backup run that passed the preconditions and the metadata
\* pre-check pushed the backup-in-progress flag before it invoked the
\* engine's backup command, and the flag is cleared when the action has
\* ended, whatever the outcome.
C2_FlagSetThenCleared ==
    (op = "create-backup" /\ Has(calls, "upload-metadata") /\ inp.metaUpload)
    => /\ \E i \in DOMAIN calls : \E j \in DOMAIN calls :
             /\ i < j
             /\ calls[i] = "update_config(is_creating_backup=True)"
             /\ calls[j] \in EngineBackupCalls
       /\ creatingBackup = FALSE

\* ---- C3
\* C3: when check_stanza runs on the leader with init-pgbackrest set and
\* every check invocation exits non-zero, there are exactly 5 check
\* invocations, then the stanza name is cleared, init-pgbackrest is removed,
\* the configuration is pushed again after the last check, and the status is
\* Blocked(failed to initialize stanza).
C3_RollbackAfterFiveChecks ==
    [][ (op' = "check-stanza" /\ inp'.leader /\ initPending # Absent
            /\ \A n \in 1..5 : inp'.rcs[n] # 0)
        => /\ Count(calls', "check") = 5
           /\ stanza' = Absent
           /\ initPending' = Absent
           /\ calls'[Len(calls')] = "update_config"
           /\ Count(calls', "update_config") = 2
           /\ status' = BlockedStatus(FAILED_TO_INITIALIZE_STANZA_ERROR_MESSAGE)
      ]_vars

C3_Witness ==
    /\ op = "check-stanza" /\ inp.leader
    /\ \A n \in 1..5 : inp.rcs[n] # 0
    /\ Count(calls, "check") = 5
    /\ status = BlockedStatus(FAILED_TO_INITIALIZE_STANZA_ERROR_MESSAGE)

\* ---- C4
\* C4: when check_stanza runs on the leader with init-pgbackrest set,
\* init-pgbackrest is absent when it returns; and if the k-th check invocation
\* (1 <= k <= 5) is the first to exit 0, there are exactly k invocations, the
\* stanza name is left as it was and the status becomes Active.
C4_PendingClearedAndFirstSuccess ==
    [][ (op' = "check-stanza" /\ inp'.leader /\ initPending # Absent)
        => /\ initPending' = Absent
           /\ \A k \in 1..5 :
                 (inp'.rcs[k] = 0 /\ \A n \in 1..(k - 1) : inp'.rcs[n] # 0)
                 => /\ Count(calls', "check") = k
                    /\ stanza' = stanza
                    /\ status' = ActiveStatus
      ]_vars

C4_Witness ==
    /\ op = "check-stanza" /\ inp.leader
    /\ inp.rcs[3] = 0 /\ inp.rcs[2] # 0
    /\ Count(calls, "check") = 3
    /\ stanza = stanza_name
    /\ initPending = Absent
    /\ status = ActiveStatus

\* ---- C5
\* C5: a restore action whose backup-id is not in the listing without the
\* failed backups (no backup has that id, or only a failed one) fails and
\* changes nothing: no stop of the database process, no removal of the data
\* directory, no restore directive, the status as it was.
C5_UnknownIdHasNoEffect ==
    [][ (op' = "restore" /\ inp'.info.entry # "finished")
        => /\ ReportsFailure(reports')
           /\ ~Has(calls', "stop")
           /\ ~Has(calls', "rmtree")
           /\ ~Has(calls', "start")
           /\ ~Has(calls', "update_config")
           /\ restoringBackup' = restoringBackup
           /\ restoreStanza' = restoreStanza
           /\ status' = status
           /\ Persistent' = Persistent
      ]_vars

C5_Witness ==
    /\ op = "restore"
    /\ inp.info.rc = 0 /\ inp.info.entry = "failed"
    /\ reports = << FailReport("Invalid backup-id") >>
    /\ calls = << "info" >>

\* ---- C6
\* C6: if the engine's backup command exits 0 and the re-listing of the
\* catalog succeeds but the upload of the backup log fails, create-backup
\* reports failure and not "backup created".
C6_FailedLogUploadFailsAction ==
    (op = "create-backup" /\ BackupInvoked(calls) /\ inp.backupRc = 0
        /\ inp.info.rc = 0 /\ inp.info.n > 0 /\ ~inp.logUpload)
    => /\ ReportsFailure(reports)
       /\ ~Has(reports, [kind |-> "ok", msg |-> "backup created"])

C6_Witness ==
    /\ op = "create-backup"
    /\ inp.backupRc = 0 /\ inp.info.rc = 0 /\ inp.info.n > 0 /\ ~inp.logUpload
    /\ Has(calls, "upload-log:listed-id")
    /\ reports = << FailReport("Error uploading logs to S3") >>

\* ---- C7
\* The preconditions of create-backup in the order of the claim, for a unit
\* with status st and recorded stanza stz that reads in.
BackupPreconditions(st, stz, in) ==
    << [fails |-> st.kind = "blocked",
        reason |-> "Unit is in a blocking state"],
       [fails |-> in.primary /\ in.planned > 1 /\ in.tls,
        reason |-> "Unit cannot perform backups as it is the cluster primary"],
       [fails |-> ~in.primary /\ ~in.tls,
        reason |-> "Unit cannot perform backups as TLS is not enabled"],
       [fails |-> ~in.started,
        reason |-> "Unit cannot perform backups as it's not in running state"],
       [fails |-> stz = Absent,
        reason |-> "Stanza was not initialised"],
       [fails |-> in.s3 = "norelation",
        reason |-> "Relation with s3-integrator charm missing, cannot create/restore backup."],
       [fails |-> in.s3 # "ok",
        reason |-> "Missing S3 parameters"] >>

\* C7: create-backup fails with the reason of the first failing precondition
\* in the order blocked, primary with more than one planned unit and TLS,
\* replica without TLS, database process started, stanza registered, S3
\* settings complete, and goes on (to the metadata upload) only if all hold;
\* (primary, 2 units, TLS) and (replica, no TLS) are denied, and (primary,
\* 1 unit, no TLS) goes on when the remaining checks hold.
C7_BackupPreconditionOrder ==
    [][ op' = "create-backup"
        => LET reason == FirstFailing(BackupPreconditions(status, stanza, inp'))
               denied == /\ ReportsFailure(reports')
                         /\ calls' = << >>
           IN /\ IF reason # ""
                 THEN reports' = << FailReport(reason) >> /\ calls' = << >>
                 ELSE calls' # << >> /\ calls'[1] = "upload-metadata"
              /\ (inp'.primary /\ inp'.planned = 2 /\ inp'.tls) => denied
              /\ (~inp'.primary /\ ~inp'.tls) => denied
              /\ (inp'.primary /\ inp'.planned = 1 /\ ~inp'.tls
                    /\ ~is_blocked(status) /\ inp'.started /\ stanza # Absent
                    /\ inp'.s3 = "ok")
                 => calls' # << >> /\ calls'[1] = "upload-metadata"
      ]_vars

C7_Witness ==
    /\ op = "create-backup"
    /\ ~inp.started /\ stanza = Absent /\ inp.s3 = "missing"
    /\ inp.primary /\ inp.planned = 1 /\ ~inp.tls
    /\ reports = << FailReport("Unit cannot perform backups as it's not in running state") >>

\* ---- C8
\* C8: create-backup, on the leader or not, never invokes the engine's
\* backup command unless a non-empty stanza name is recorded; with the name
\* cleared (by the rollback of the check or by the detection of a foreign
\* repository) the action is denied.
C8_NoBackupWithoutStanza ==
    [][ (op' = "create-backup" /\ stanza = Absent)
        => /\ ~BackupInvoked(calls')
           /\ ReportsFailure(reports')
           /\ calls' = << >>
      ]_vars

C8_Witness ==
    /\ op = "create-backup"
    /\ stanza = Absent
    /\ initPending = Absent
    /\ status = ActiveStatus
    /\ inp.started /\ inp.s3 = "ok"
    /\ reports = << FailReport("Stanza was not initialised") >>

\* ---- C9
\* C9: if the upload of the metadata fails, create-backup fails and nothing
\* else happens: the connectivity is not changed, the backup-in-progress flag
\* is not set, the engine's backup command is not invoked, and the status is
\* as it was.
C9_FailedPreCheckAborts ==
    [][ (op' = "create-backup" /\ ~inp'.metaUpload)
        => /\ reports' = << FailReport("Failed to upload metadata to provided S3") >>
           /\ calls' = << "upload-metadata" >>
           /\ connectivity' = connectivity
           /\ creatingBackup' = creatingBackup
           /\ ~BackupInvoked(calls')
           /\ status' = status
           /\ Persistent' = Persistent
      ]_vars

C9_Witness ==
    /\ op = "create-backup"
    /\ ~inp.metaUpload /\ ~inp.primaryPre
    /\ calls = << "upload-metadata" >>
    /\ connectivity = "on"
    /\ reports = << FailReport("Failed to upload metadata to provided S3") >>

\* ---- C10
\* The precondition checks of restore in the order of the claim.
RestorePreconditions(st, in) ==
    << [fails |-> in.s3 = "norelation",
        reason |-> "Relation with s3-integrator charm missing, cannot create/restore backup."],
       [fails |-> in.s3 # "ok",
        reason |-> "Missing S3 parameters"],
       [fails |-> in.bid = NoId,
        reason |-> "Missing backup-id to restore"],
       [fails |-> st.kind = "blocked"
                    /\ st.msg # ANOTHER_CLUSTER_REPOSITORY_ERROR_MESSAGE,
        reason |-> "Cluster or unit is in a blocking state"],
       [fails |-> in.planned > 1,
        reason |-> "Unit cannot restore backup as there are more than one unit in the cluster"],
       [fails |-> ~in.leader,
        reason |-> "Unit cannot restore backup as it was not elected the leader unit yet"] >>

\* C10: restore goes past its precondition checks (to the listing of the
\* catalog) if and only if the S3 settings are complete, a backup-id is
\* given, the unit is not blocked or is blocked with exactly the message of
\* the foreign repository, there is at most one planned unit and the unit is
\* the leader; otherwise it fails with the reason of the first failing check
\* in that order and does nothing else.
C10_RestorePreconditions ==
    [][ op' = "restore"
        => LET reason == FirstFailing(RestorePreconditions(status, inp'))
               allHold ==
                   /\ inp'.s3 = "ok"
                   /\ inp'.bid # NoId
                   /\ (~is_blocked(status)
                         \/ status = BlockedStatus(ANOTHER_CLUSTER_REPOSITORY_ERROR_MESSAGE))
                   /\ inp'.planned <= 1
                   /\ inp'.leader
           IN /\ Has(calls', "info") <=> allHold
              /\ allHold <=> reason = ""
              /\ ~allHold
                 => /\ reports' = << FailReport(reason) >>
                    /\ calls' = << >>
                    /\ status' = status
                    /\ Persistent' = Persistent
      ]_vars

C10_Witness ==
    /\ op = "restore"
    /\ status = BlockedStatus(ANOTHER_CLUSTER_REPOSITORY_ERROR_MESSAGE)
    /\ Has(calls, "info")
    /\ reports = << FailReport("Invalid backup-id") >>

\* ---- C11
\* C11: if the removal of the data directory fails during restore, the
\* action reports failure, the database process is started again, the
\* restore directive is not written (the label is left empty) and the
\* removal of the membership is not attempted.
C11_FailedRemovalRestartsDatabase ==
    [][ (op' = "restore" /\ Has(calls', "rmtree") /\ ~inp'.rmOk)
        => /\ reports' = << FailReport("Failed to remove contents of the data directory") >>
           /\ calls'[Len(calls')] = "start"
           /\ Count(calls', "start") = 1
           /\ restoringBackup' = NoLabel
           /\ restoreStanza' = restoreStanza
           /\ ~Has(calls', "patronictl-remove")
      ]_vars

C11_Witness ==
    /\ op = "restore"
    /\ Has(calls, "rmtree") /\ ~inp.rmOk
    /\ calls[Len(calls)] = "start"
    /\ restoringBackup = NoLabel
    /\ reports = << FailReport("Failed to remove contents of the data directory") >>

\* ---- C12
\* C12: if the removal of the membership exits non-zero during restore, the
\* action reports failure and nothing is rolled back: the restore directive
\* (the label and the source stanza of the requested backup) stays in the
\* peer data and the database process stays started.
C12_FailedMembershipRemovalKeepsDirective ==
    [][ (op' = "restore" /\ Has(calls', "patronictl-remove") /\ inp'.remove = "error")
        => /\ reports' =
                << FailReport("Failed to remove previous cluster information with error") >>
           /\ restoringBackup' # NoLabel
           /\ restoringBackup'.ts = inp'.bid.id
           /\ restoreStanza' = inp'.info.repo
           /\ calls'[Len(calls')] = "patronictl-remove"
           /\ calls'[Len(calls') - 1] = "start"
           /\ Count(calls', "update_config") = 1
      ]_vars

C12_Witness ==
    /\ op = "restore"
    /\ Has(calls, "patronictl-remove") /\ inp.remove = "error"
    /\ restoringBackup # NoLabel
    /\ restoreStanza = OtherStanza
    /\ ReportsFailure(reports)

\* ---- C13
\* C13: on a restore that reaches the directive step, the label written to
\* the peer data is the engine's label of the catalog entry with the
\* requested backup-id (its time and its type character, F or D), and the
\* written source stanza is the repository name of that entry.
C13_DirectiveIsCatalogLabel ==
    (op = "restore" /\ Has(calls, "patronictl-remove"))
    => /\ restoringBackup = Label(inp.bid.id, inp.info.kind)
       /\ restoreStanza = inp.info.repo

\* ---- C14
\* C14: _initialise_stanza does nothing (no engine command, the status, the
\* stanza name and init-pgbackrest as they were) when the unit is not the
\* leader or is blocked with a message other than the three S3/stanza
\* messages; otherwise (not blocked, or blocked with one of the three) it
\* goes on to stanza-create.
C14_InitialiseGuard ==
    [][ op' = "initialise-stanza"
        => LET noop ==
                 \/ ~inp'.leader
                 \/ /\ status.kind = "blocked"
                    /\ status.msg # ANOTHER_CLUSTER_REPOSITORY_ERROR_MESSAGE
                    /\ status.msg # FAILED_TO_ACCESS_CREATE_BUCKET_ERROR_MESSAGE
                    /\ status.msg # FAILED_TO_INITIALIZE_STANZA_ERROR_MESSAGE
           IN IF noop
              THEN /\ calls' = << >>
                   /\ status' = status
                   /\ stanza' = stanza
                   /\ initPending' = initPending
                   /\ exc' = ""
              ELSE calls' # << >> /\ calls'[1] = "stanza-create"
      ]_vars

C14_Witness ==
    /\ op = "initialise-stanza"
    /\ inp.leader
    /\ status = BlockedStatus(OTHER_BLOCK_MESSAGE)
    /\ calls = << >>

\* ---- C15
\* C15: if stanza-create exits with a non-zero code other than 49,
\* _initialise_stanza sets the status to Blocked(failed to initialize
\* stanza) and stops: the stanza name and init-pgbackrest are not recorded
\* and the TLS service is not touched.
C15_FailedCreateBlocks ==
    [][ (op' \in {"initialise-stanza", "s3-changed"} /\ Has(calls', "stanza-create")
            /\ inp'.createRc # 0 /\ inp'.createRc # 49)
        => /\ status' = BlockedStatus(FAILED_TO_INITIALIZE_STANZA_ERROR_MESSAGE)
           /\ stanza' = stanza
           /\ initPending' = initPending
           /\ calls'[Len(calls')] = "stanza-create"
           /\ ~Has(calls', "service-restart") /\ ~Has(calls', "service-stop")
           /\ exc' = ""
      ]_vars

C15_Witness ==
    /\ op = "initialise-stanza"
    /\ inp.createRc = 1
    /\ calls = << "stanza-create" >>
    /\ status = BlockedStatus(FAILED_TO_INITIALIZE_STANZA_ERROR_MESSAGE)
    /\ stanza = Absent /\ initPending = Absent

\* ---- C16
\* C16: if stanza-create exits with code 49, _initialise_stanza raises
\* TimeoutError: the status is not set to a blocked one (it stays
\* Maintenance "initialising stanza"), the stanza name and init-pgbackrest
\* are not recorded; and from the status it leaves, _initialise_stanza called
\* again on the leader is not stopped by its guard.
C16_TimeoutIsRaised ==
    [][ /\ (op' \in {"initialise-stanza", "s3-changed"} /\ Has(calls', "stanza-create")
              /\ inp'.createRc = 49)
           => /\ exc' = "TimeoutError"
              /\ status' = MaintenanceStatus("initialising stanza")
              /\ stanza' = stanza
              /\ initPending' = initPending
              /\ calls'[Len(calls')] = "stanza-create"
        /\ (op' = "initialise-stanza" /\ inp'.leader
              /\ status = MaintenanceStatus("initialising stanza"))
           => Has(calls', "stanza-create")
      ]_vars

C16_Witness ==
    /\ op = "initialise-stanza"
    /\ inp.createRc = 49
    /\ exc = "TimeoutError"
    /\ status = MaintenanceStatus("initialising stanza")
    /\ stanza = Absent /\ initPending = Absent

\* ---- C17
\* What the ownership validation does on the leader when the info output was
\* read, given the name the repository names are compared with.
OwnershipRule(expected) ==
    LET names == inp'.probe.names
        mismatch == \E i \in DOMAIN names : names[i] # expected
    IN /\ (op' = "can-use-s3" /\ inp'.leader /\ inp'.probe.out = "ok")
          => IF mismatch
             THEN /\ stanza' = Absent
                  /\ calls' = << "info", "update_config" >>
                                \o (IF inp'.started THEN << "reload" >> ELSE << >>)
                  /\ reports' = << FailReport(ANOTHER_CLUSTER_REPOSITORY_ERROR_MESSAGE) >>
             ELSE /\ stanza' = stanza
                  /\ calls' = << "info" >>
                  /\ reports' = << [kind |-> "ok", msg |-> ""] >>
       /\ (op' = "s3-changed" /\ Has(calls', "info") /\ inp'.probe.out = "ok" /\ mismatch)
          => /\ stanza' = Absent
             /\ status' = BlockedStatus(ANOTHER_CLUSTER_REPOSITORY_ERROR_MESSAGE)
             /\ ~Has(calls', "stanza-create")

\* C17 as written: on the leader, a repository name in the info output that
\* differs from the recorded stanza name makes the validation clear the
\* recorded name, push the configuration (reloading when the database is
\* started) and return the message of the foreign repository; with no
\* repository, or every name equal to the recorded one, it passes and the
\* stanza name is unchanged.
C17_ForeignRepositoryRecordedName ==
    [][ OwnershipRule(stanza) ]_vars

\* C17 amended: the names are compared with the recorded stanza name or, when
\* no stanza name is recorded, with the cluster's own stanza name.
C17_ForeignRepositoryOwnName ==
    [][ OwnershipRule(IF stanza = Absent THEN "model.cluster" ELSE stanza) ]_vars

C17_Witness ==
    /\ op = "can-use-s3"
    /\ inp.leader /\ inp.started
    /\ inp.probe.names = << stanza_name, OtherStanza >>
    /\ stanza = Absent
    /\ calls = << "info", "update_config", "reload" >>
    /\ reports = << FailReport(ANOTHER_CLUSTER_REPOSITORY_ERROR_MESSAGE) >>

\* ---- C18
\* C18: if the info command times out during the ownership validation,
\* TimeoutError is raised and no state changes: the recorded stanza name is
\* not cleared, the status is not set to a blocked one, and stanza-create is
\* not invoked.
C18_InfoTimeoutIsRaised ==
    [][ (op' \in {"can-use-s3", "s3-changed"} /\ Has(calls', "info")
            /\ inp'.probe.out = "timeout")
        => /\ exc' = "TimeoutError"
           /\ calls'[Len(calls')] = "info"
           /\ stanza' = stanza
           /\ initPending' = initPending
           /\ status' = status
           /\ ~Has(calls', "stanza-create")
           /\ ~Has(calls', "update_config")
           /\ reports' = << >>
      ]_vars

C18_Witness ==
    /\ op = "s3-changed"
    /\ inp.probe.out = "timeout"
    /\ exc = "TimeoutError"
    /\ stanza = stanza_name
    /\ status = ActiveStatus
    /\ calls[Len(calls)] = "info"

\* ---- C19, C20
\* A credentials-changed event on the leader in which the bucket access, the
\* info command and stanza-create succeed, the info output listing names.
RecoveryEvent(names) ==
    /\ op' = "s3-changed"
    /\ inp'.clusterInit /\ inp'.s3 = "ok" /\ inp'.leader
    /\ inp'.bucket \in {"exists", "created"}
    /\ inp'.probe = [out |-> "ok", names |-> names]
    /\ inp'.createRc = 0
\* The stanza is recorded and waits for its check.
AwaitsCheck ==
    /\ stanza' = "model.cluster"
    /\ initPending' # Absent
    /\ status' = MaintenanceStatus("initialising stanza")
    /\ Has(calls', "stanza-create")
    /\ exc' = ""
\* A check_stanza on the leader of the recorded stanza, one of whose first
\* five check invocations exits 0, ends Active with the stanza recorded.
CheckCompletes ==
    (op' = "check-stanza" /\ inp'.leader
        /\ initPending # Absent /\ stanza = "model.cluster"
        /\ \E k \in 1..5 : inp'.rcs[k] = 0)
    => /\ status' = ActiveStatus
       /\ stanza' = "model.cluster"
       /\ initPending' = Absent

\* C19: from Blocked(failed to initialize stanza) left by the rollback of
\* check_stanza (no stanza name recorded), a credentials-changed event on the
\* leader in which bucket access, info (the same repository: it lists the
\* cluster's own stanza, or nothing) and stanza-create succeed records the
\* stanza name, and the check that then succeeds ends with the status
\* Active: the blocked status clears itself.
C19_FailedStanzaSelfClears ==
    [][ /\ \A names \in {<< >>, << "model.cluster" >>} :
             (/\ status = BlockedStatus(FAILED_TO_INITIALIZE_STANZA_ERROR_MESSAGE)
              /\ stanza = Absent /\ initPending = Absent
              /\ RecoveryEvent(names))
             => AwaitsCheck
        /\ CheckCompletes
      ]_vars

C19_Witness ==
    /\ op = "s3-changed"
    /\ inp.blockedMsg = FAILED_TO_INITIALIZE_STANZA_ERROR_MESSAGE
    /\ inp.probe = [out |-> "ok", names |-> << stanza_name >>]
    /\ stanza = stanza_name
    /\ initPending = "True"
    /\ status = MaintenanceStatus("initialising stanza")

\* C20: from Blocked(foreign repository) (the stanza name cleared), a
\* credentials-changed event on the leader whose info output lists no
\* repository and whose stanza-create succeeds records the cluster's own
\* stanza name, and the check that then succeeds ends with the status Active.
C20_ForeignRepositoryRecovery ==
    [][ /\ (/\ status = BlockedStatus(ANOTHER_CLUSTER_REPOSITORY_ERROR_MESSAGE)
            /\ stanza = Absent
            /\ RecoveryEvent(<< >>))
           => AwaitsCheck
        /\ CheckCompletes
      ]_vars

C20_Witness ==
    /\ op = "s3-changed"
    /\ inp.blockedMsg = ANOTHER_CLUSTER_REPOSITORY_ERROR_MESSAGE
    /\ inp.probe = [out |-> "ok", names |-> << >>]
    /\ stanza = stanza_name
    /\ initPending = "True"
    /\ status = MaintenanceStatus("initialising stanza")

\* ---- C21
\* A run of the credentials-changed handler on the leader (cluster
\* initialised, S3 parameters complete) in which the bucket check or creation
\* fails with a client error or a configuration error returns normally with
\* the unit Blocked('failed to access/create the bucket, check your S3
\* settings'); a run in which the bucket probe times out ends with that
\* error raised and the status it started with.  Neither run invokes the
\* ownership validation (info) or stanza-create.
ReachesBucketCheck(in) == in.clusterInit /\ in.s3 = "ok" /\ in.leader

C21_BucketFailureBlocks ==
    [][ (op' = "s3-changed" /\ ReachesBucketCheck(inp')
         /\ inp'.bucket \notin {"exists", "created"})
        => /\ ~Has(calls', "info")
           /\ ~Has(calls', "stanza-create")
           /\ inp'.bucket \in {"session-valueerror", "create-clienterror"}
                => /\ status' = BlockedStatus(
                                  FAILED_TO_ACCESS_CREATE_BUCKET_ERROR_MESSAGE)
                   /\ exc' = ""
           /\ inp'.bucket = "head-timeout"
                => /\ exc' = "ConnectTimeoutError"
                   /\ status' = status ]_vars

\* A bucket that could not be created: the probe, then the failed creation.
C21_Witness ==
    /\ op = "s3-changed"
    /\ inp.bucket = "create-clienterror"
    /\ inp.blockedMsg = ""
    /\ calls = << "render", "head_bucket", "create_bucket" >>
    /\ status = BlockedStatus(FAILED_TO_ACCESS_CREATE_BUCKET_ERROR_MESSAGE)

\* ---- C22
\* The reason for which an action's precondition checks refuse the run that
\* starts with status st and recorded stanza stz and reads in; "" if they
\* let it go on.
RefusalReason(action, st, stz, in) ==
    CASE action = "create-backup" -> FirstFailing(BackupPreconditions(st, stz, in))
      [] action = "list-backups" ->
           FirstFailing(<< [fails |-> in.s3 # "ok", reason |-> "S3 settings"] >>)
      [] action = "restore" -> FirstFailing(RestorePreconditions(st, in))

\* C22: a create-backup, list-backups or restore run whose precondition
\* checks fail (unit blocked, wrong role, database not started, stanza not
\* registered, S3 settings missing, no backup-id, more than one unit, not
\* leader) reports exactly one failure and does nothing else: it calls no
\* collaborator (no engine command, no push of the configuration, no stop or
\* start of the database, no removal of the data directory), raises nothing,
\* and leaves the status and the shared configuration (stanza, init-pending,
\* connectivity, backup flag, restore directive) as they were.
C22_RefusedActionHasNoEffect ==
    [][ (op' \in {"create-backup", "list-backups", "restore"}
         /\ RefusalReason(op', status, stanza, inp') # "")
        => /\ Len(reports') = 1
           /\ reports'[1].kind = "fail"
           /\ calls' = << >>
           /\ exc' = ""
           /\ status' = status
           /\ Persistent' = Persistent ]_vars

\* list-backups refused for its S3 settings on a unit that an earlier failed
\* backup left in maintenance with the connectivity off.
C22_Witness ==
    /\ op = "list-backups"
    /\ inp.s3 = "missing"
    /\ reports = << FailReport("Missing S3 parameters") >>
    /\ calls = << >>
    /\ stanza = stanza_name
    /\ connectivity = "off"
    /\ status = MaintenanceStatus("creating backup")

\* ---- C23
\* The run read the catalog and the engine's info command exited non-zero.
InfoFailed(action, in, cs) ==
    /\ action \in {"create-backup", "list-backups", "restore"}
    /\ Has(cs, "info")
    /\ in.info.rc # 0

\* C23 as stated: when info exits non-zero in list-backups, in the id
\* resolution of restore or in the id resolution of a successful backup, the
\* action reports failure, the unit is not Blocked when the action has ended,
\* and restore has neither stopped the database nor removed the data
\* directory.
C23_NotBlockedAfterInfoFailure ==
    [][ InfoFailed(op', inp', calls')
        => /\ ReportsFailure(reports')
           /\ ~is_blocked(status')
           /\ op' = "restore" => ~Has(calls', "stop") /\ ~Has(calls', "rmtree")
      ]_vars

\* C23, amended: when info exits non-zero in list-backups, in the id
\* resolution of restore or in the id resolution of a successful backup, the
\* action reports failure and does not block the unit: list-backups and
\* restore leave the status as it was (Blocked only if the unit was Blocked
\* before), create-backup ends Active; and restore has neither stopped the
\* database nor removed the data directory.
C23_InfoFailureDoesNotBlock ==
    [][ InfoFailed(op', inp', calls')
        => /\ ReportsFailure(reports')
           /\ is_blocked(status') => status' = status
           /\ op' = "create-backup" => status' = ActiveStatus
           /\ op' \in {"list-backups", "restore"} => status' = status
           /\ op' = "restore" => ~Has(calls', "stop") /\ ~Has(calls', "rmtree")
      ]_vars

\* list-backups on a unit that a failed stanza-create had blocked: the info
\* command fails, and the unit is as blocked as it was.
C23_Witness ==
    /\ op = "list-backups"
    /\ inp.info.rc # 0
    /\ calls = << "info" >>
    /\ reports = << FailReport("Failed to list PostgreSQL backups with error") >>
    /\ status = BlockedStatus(FAILED_TO_INITIALIZE_STANZA_ERROR_MESSAGE)

\* ---- C24
\* What the leader shares with the other units through the peer data: the
\* stanza name, the init-pending marker and the restore directive.
SharedConfiguration == << stanza, initPending, restoringBackup, restoreStanza >>

\* C24: a run of the credentials-changed handler, of _initialise_stanza, of
\* check_stanza, of the ownership validation or of the restore action on a
\* unit that is not the leader leaves the stanza name, the init-pending
\* marker and the restore directive (label and source stanza) as they were.
C24_OnlyLeaderWritesSharedConfiguration ==
    [][ (op' \in {"s3-changed", "initialise-stanza", "check-stanza",
                  "can-use-s3", "restore"}
         /\ ~inp'.leader)
        => SharedConfiguration' = SharedConfiguration ]_vars

\* A unit that is not the leader validates a repository that holds another
\* cluster's stanza while a stanza is registered and awaits its check: the
\* validation passes and everything is kept.
C24_Witness ==
    /\ op = "can-use-s3"
    /\ ~inp.leader
    /\ inp.probe.out = "ok"
    /\ Has(inp.probe.names, OtherStanza)
    /\ calls = << "info" >>
    /\ reports = << [kind |-> "ok", msg |-> ""] >>
    /\ stanza = stanza_name
    /\ initPending = "True"

\* ---- C25
\* The backup-ids of the entries of an info output that carry an error.
FailedIds(info) ==
    IF info.repos = << >> THEN {}
    ELSE LET b == Head(info.repos).backup IN
         {[id |-> b[i].label.ts] : i \in {j \in DOMAIN b : b[j].error}}

\* C25: for one info output, _list_backups(show_failed=False) fails exactly
\* when _list_backups(show_failed=True) fails, and otherwise returns the
\* catalog of show_failed=True without the entries of the backups that carry
\* an error, the remaining entries in the same order.
C25_FilteredCatalog ==
    op = "_list_backups"
    => LET all == reports[1].value
           finished == reports[2].value
           kept(e) == e.id \notin FailedIds(inp.info)
       IN /\ finished.err = all.err
          /\ finished.list = SelectSeq(all.list, kept)

\* Three backups of which the second failed: the catalog without the failed
\* backups is the first and the third, in that order.
C25_Witness ==
    /\ op = "_list_backups"
    /\ Len(reports[1].value.list) = 3
    /\ FailedIds(inp.info) = {[id |-> 2]}
    /\ reports[2].value.list =
         << [id |-> [id |-> 1], stanza |-> stanza_name],
            [id |-> [id |-> 3], stanza |-> stanza_name] >>

RestoreStepsSucceed(in) ==
    /\ in.s3 = "ok" /\ in.bid # NoId /\ in.planned <= 1 /\ in.leader
    /\ in.info.rc = 0 /\ in.info.entry = "finished"
    /\ in.stopOk
    /\ in.dirExists => in.rmOk
    /\ in.remove = "ok"

\* The state a successful restore run leaves: the directive of the requested
\* backup, the database started after the push of the directive, and
\* 'restore started' reported.
RestoreStarted ==
    /\ restoringBackup' = [ts |-> inp'.bid.id, kind |-> "F"]
    /\ restoreStanza' = inp'.info.repo
    /\ status' = MaintenanceStatus("restoring backup")
    /\ reports' = << [kind |-> "ok", msg |-> "restore started"] >>
    /\ exc' = ""
    /\ \E i \in DOMAIN calls' : \E j \in DOMAIN calls' :
          i < j /\ calls'[i] = "update_config" /\ calls'[j] = "start"
    /\ UNCHANGED << stanza, initPending, connectivity, creatingBackup >>

\* C27: a restore attempt that failed after the id resolution leaves the
\* unit in maintenance "restoring backup", with or without a directive in
\* the peer data.  A restore run that starts there and in which every step
\* succeeds is not refused and leaves the state that a run from an active
\* unit leaves: the directive of the requested backup-id, the database
\* started, 'restore started' reported, the rest of the configuration as it
\* was.
C27_RetriedRestoreStarts ==
    [][ (op' = "restore"
         /\ status \in {MaintenanceStatus("restoring backup"), ActiveStatus})
        => /\ (inp'.s3 = "ok" /\ inp'.bid # NoId /\ inp'.planned <= 1
                  /\ inp'.leader)
              => /\ calls' # << >>
                 /\ calls'[1] = "info"
           /\ RestoreStepsSucceed(inp') => RestoreStarted ]_vars

\* A retry that succeeds on a unit that an earlier attempt left in
\* maintenance.
C27_Witness ==
    /\ op = "restore"
    /\ inp.unitStatus = MaintenanceStatus("restoring backup")
    /\ RestoreStepsSucceed(inp)
    /\ reports = << [kind |-> "ok", msg |-> "restore started"] >>
    /\ restoringBackup = [ts |-> inp.bid.id, kind |-> "F"]
    /\ restoreStanza = inp.info.repo

\* ---- C28
\* What start_stop_pgbackrest_service asks of the TLS service or of its
\* peer: stop, ping of the primary's server, restart.
ServiceRequests == {"service-stop", "server-ping", "service-restart"}
\* The place of the recording of the stanza among the calls of a run.
RecordedAt(cs) == CHOOSE i \in DOMAIN cs : cs[i] = "app_peer_data.update"
\* _initialise_stanza ran and stanza-create exited 0.
StanzaCreated(action, in, cs) ==
    /\ action \in {"initialise-stanza", "s3-changed"}
    /\ Has(cs, "stanza-create")
    /\ in.createRc = 0

\* C28 as stated: a run of _initialise_stanza whose stanza-create succeeds
\* records the stanza name and init-pgbackrest, and every request to the TLS
\* service comes after the recording.
C28_RecordedBeforeService ==
    [][ StanzaCreated(op', inp', calls')
        => /\ stanza' = stanza_name /\ initPending' = "True"
           /\ Count(calls', "app_peer_data.update") = 1
           /\ \A i \in DOMAIN calls' :
                 calls'[i] \in ServiceRequests => RecordedAt(calls') < i ]_vars

\* C28, amended: a run of _initialise_stanza whose stanza-create succeeds
\* first requests the start or stop of the TLS service and then, as its last
\* step, records the stanza name (the cluster's own) and init-pgbackrest.
C28_ServiceBeforeRecorded ==
    [][ StanzaCreated(op', inp', calls')
        => /\ stanza' = stanza_name /\ initPending' = "True"
           /\ Count(calls', "app_peer_data.update") = 1
           /\ RecordedAt(calls') = Len(calls')
           /\ \A i \in DOMAIN calls' :
                 calls'[i] \in ServiceRequests => i < RecordedAt(calls') ]_vars

\* The service restarted on the primary, then the stanza recorded.
C28_Witness ==
    /\ op = "initialise-stanza"
    /\ inp.svc = "restart-primary"
    /\ calls = << "stanza-create", "render", "service-restart",
                  "app_peer_data.update" >>
    /\ stanza = stanza_name
    /\ initPending = "True"

\* ---- C29
\* C29: a run of check_stanza on a unit that is not the leader, or with
\* init-pgbackrest absent from the peer data, calls nothing (no engine
\* command, no push of the configuration, no reload) and leaves the unit
\* status, the stanza name and init-pgbackrest as they were.
C29_CheckStanzaGuard ==
    [][ (op' = "check-stanza" /\ (~inp'.leader \/ initPending = Absent))
        => /\ calls' = << >>
           /\ status' = status
           /\ stanza' = stanza
           /\ initPending' = initPending
           /\ exc' = "" ]_vars

\* The leader is asked to check a registered stanza that was checked
\* already: nothing happens.
C29_Witness ==
    /\ op = "check-stanza"
    /\ inp.leader
    /\ stanza = stanza_name
    /\ initPending = Absent
    /\ calls = << >>
    /\ status = ActiveStatus

\* ---- C30
\* The steps of a restore run that reads in, in the order of the claim: the
\* catalog read, the database stopped, the data directory (if there is one)
\* removed, the directive pushed, the database started, the membership
\* removed.
RestoreSteps(in) ==
    << "info", "stop" >>
    \o (IF in.dirExists THEN << "rmtree" >> ELSE << >>)
    \o << "update_config", "start", "patronictl-remove" >>
IsPrefix(a, b) == Len(a) <= Len(b) /\ SubSeq(b, 1, Len(a)) = a

\* C30: the calls of a restore run are a beginning of the sequence info,
\* stop, removal of the data directory, push of the configuration, start,
\* membership removal, and the run goes one step further only if the step
\* before succeeded: it stops the database only if the backup-id is that of
\* a finished backup of the catalog, goes past the stop only if the stop
\* succeeded, leaves a directive in the peer data of a database it started
\* only if the data directory is gone, and reports success only if the
\* membership removal exited 0, after all the steps.
C30_RestoreStepOrder ==
    [][ op' = "restore"
        => /\ IsPrefix(calls', RestoreSteps(inp'))
           /\ Has(calls', "stop")
                => inp'.info.rc = 0 /\ inp'.info.entry = "finished"
           /\ Len(calls') > 2 => inp'.stopOk
           /\ (Has(calls', "start") /\ restoringBackup' # NoLabel)
                => /\ inp'.dirExists => inp'.rmOk
                   /\ restoringBackup' = [ts |-> inp'.bid.id, kind |-> "F"]
           /\ Has(calls', "patronictl-remove") => (inp'.dirExists => inp'.rmOk)
           /\ (\E i \in DOMAIN reports' : reports'[i].kind = "ok")
                => /\ reports' = << [kind |-> "ok", msg |-> "restore started"] >>
                   /\ inp'.remove = "ok"
                   /\ calls' = RestoreSteps(inp') ]_vars

\* A run that went through every step.
C30_Witness ==
    /\ op = "restore"
    /\ calls = << "info", "stop", "rmtree", "update_config", "start",
                  "patronictl-remove" >>
    /\ inp.stopOk /\ inp.rmOk /\ inp.remove = "ok"
    /\ reports = << [kind |-> "ok", msg |-> "restore started"] >>
    /\ restoringBackup = [ts |-> inp.bid.id, kind |-> "F"]

\* ---- C31
\* Everything create-backup needs holds in a run that starts with status st
\* and recorded stanza stz and reads in: the preconditions, the metadata
\* upload, the engine's backup command, the re-listing of the catalog with a
\* most recent entry, and the upload of the log.
BackupGoesThrough(st, stz, in) ==
    /\ FirstFailing(BackupPreconditions(st, stz, in)) = ""
    /\ in.metaUpload
    /\ in.backupRc = 0
    /\ in.info.rc = 0 /\ in.info.n > 0
    /\ in.logUpload

\* C31: every create-backup run reports exactly one outcome: 'backup
\* created' if the preconditions pass, the metadata upload works, the backup
\* command exits 0, the re-listing succeeds with a most recent entry and the
\* log upload works, and a failure in every other case.
C31_ExactlyOneOutcome ==
    [][ op' = "create-backup"
        => /\ Len(reports') = 1
           /\ \A i \in DOMAIN reports' :
                 IF BackupGoesThrough(status, stanza, inp')
                 THEN reports'[i] = [kind |-> "ok", msg |-> "backup created"]
                 ELSE reports'[i].kind = "fail" ]_vars

\* ---- C32
\* The uploads of the backup log, by the key of the log object.
LogUploads == {"upload-log:stdout-label", "upload-log:now-label",
               "upload-log:listed-id"}

\* C32: a create-backup run whose engine backup command exits non-zero
\* uploads the log exactly once, under the label of the "new backup label"
\* line of stdout if there is one and under a label made of the current time
\* otherwise, does not read the catalog, and reports the one failure 'Failed
\* to backup PostgreSQL with error' whether the upload worked or not.
C32_FailedBackupUploadsLogOnce ==
    (op = "create-backup" /\ BackupInvoked(calls) /\ inp.backupRc # 0)
    => /\ Cardinality({i \in DOMAIN calls : calls[i] \in LogUploads}) = 1
       /\ Has(calls, IF inp.labelInStdout THEN "upload-log:stdout-label"
                                          ELSE "upload-log:now-label")
       /\ ~Has(calls, "info")
       /\ reports = << FailReport("Failed to backup PostgreSQL with error") >>

\* The backup failed after the engine had printed its label, and the upload
\* of the log failed too.
C32_Witness ==
    /\ op = "create-backup"
    /\ inp.backupRc # 0 /\ inp.labelInStdout /\ ~inp.logUpload
    /\ Has(calls, "upload-log:stdout-label")
    /\ reports = << FailReport("Failed to backup PostgreSQL with error") >>

\* ---- C33
\* The place of the engine's backup command among the calls of a run.
BackupAt(cs) == CHOOSE i \in DOMAIN cs : cs[i] \in EngineBackupCalls
\* The run pushed a change of the connectivity before (to disable it) and
\* after (to enable it again) the backup command.
DisabledConnectivity(cs) ==
    \E i \in DOMAIN cs : i < BackupAt(cs) /\ cs[i] = "update_config"
EnabledConnectivity(cs) ==
    \E i \in DOMAIN cs : i > BackupAt(cs) /\ cs[i] = "update_config"

\* C33: in a create-backup run that gets to the end of the action, the role
\* decisions agree with the role the eligibility check saw: the connectivity
\* is disabled exactly on a replica, the backup command carries
\* --no-backup-standby exactly on the primary, and the connectivity is
\* enabled again exactly if the run disabled it.
C33_OneRolePerRun ==
    (op = "create-backup" /\ BackupInvoked(calls) /\ exc = "")
    => /\ DisabledConnectivity(calls) <=> ~inp.primary
       /\ Has(calls, backup_command(TRUE)) <=> inp.primary
       /\ EnabledConnectivity(calls) <=> DisabledConnectivity(calls)

\* ---- C34
\* C34: the one engine command that a create-backup run invokes after it
\* has set the backup-in-progress flag is a backup of type full of the
\* cluster's own stanza, with --no-backup-standby exactly if the unit is the
\* primary when the command is built.
C34_FullBackupOfOwnStanza ==
    (op = "create-backup" /\ Has(calls, "update_config(is_creating_backup=True)"))
    => \E i \in DOMAIN calls :
          /\ calls[i] = "update_config(is_creating_backup=True)"
          /\ i < Len(calls)
          /\ calls[i + 1] =
               IF inp.primaryRun
               THEN "pgbackrest --stanza=model.cluster --log-level-console=debug --type=full backup --no-backup-standby"
               ELSE "pgbackrest --stanza=model.cluster --log-level-console=debug --type=full backup"
          /\ \A j \in DOMAIN calls :
                (j > i + 1) => calls[j] \in LogUploads \cup
                                  {"info", "update_config",
                                   "update_config(is_creating_backup=False)"}

\* The backup forced onto the primary of a one-unit cluster.
C34_Witness ==
    /\ op = "create-backup"
    /\ inp.primaryRun /\ inp.primary /\ inp.planned = 1
    /\ Has(calls, "pgbackrest --stanza=model.cluster --log-level-console=debug --type=full backup --no-backup-standby")
    /\ reports = << [kind |-> "ok", msg |-> "backup created"] >>

\* ---- C35
\* C35: whenever check_stanza has run the engine's check and ended with the
\* unit Active, the stanza name in the peer data is the cluster's own stanza
\* name.
C35_ActiveMeansRegistered ==
    (op = "check-stanza" /\ Has(calls, "check") /\ status = ActiveStatus)
    => stanza = stanza_name /\ stanza # Absent

\* ---- C36
\* C36: a run of check_stanza on a unit that is Blocked with a message other
\* than the three S3/stanza messages leaves that status in place, whether
\* the check succeeds or every attempt fails.
C36_UnrelatedBlockKept ==
    [][ (op' = "check-stanza" /\ inp'.leader /\ initPending # Absent
         /\ is_blocked(status)
         /\ status.msg # ANOTHER_CLUSTER_REPOSITORY_ERROR_MESSAGE
         /\ status.msg # FAILED_TO_ACCESS_CREATE_BUCKET_ERROR_MESSAGE
         /\ status.msg # FAILED_TO_INITIALIZE_STANZA_ERROR_MESSAGE)
        => status' = status ]_vars

\* ---- C37
\* C37: when a create-backup or restore run has reported failure, the unit
\* status is the one the run started with, or Active.
C37_FailureLeavesNoMaintenance ==
    [][ (op' \in {"create-backup", "restore"} /\ ReportsFailure(reports'))
        => (status' = status \/ status' = ActiveStatus) ]_vars

\* ---- C38
\* C38: a credentials-gone event sets the unit Active if it was Blocked with
\* one of the three S3/stanza messages, and changes no status otherwise
\* (Active, Maintenance, Blocked with any other message); it calls nothing
\* and leaves the stanza name and init-pgbackrest, like all the rest of the
\* configuration, as they were.
C38_CredentialsGone ==
    [][ op' = "s3-gone"
        => /\ IF status.kind = "blocked"
                 /\ status.msg \in {ANOTHER_CLUSTER_REPOSITORY_ERROR_MESSAGE,
                                    FAILED_TO_ACCESS_CREATE_BUCKET_ERROR_MESSAGE,
                                    FAILED_TO_INITIALIZE_STANZA_ERROR_MESSAGE}
              THEN status' = ActiveStatus
              ELSE status' = status
           /\ stanza' = stanza
           /\ initPending' = initPending
           /\ Persistent' = Persistent
           /\ calls' = << >> ]_vars

\* The S3 relation goes away from a unit that the foreign repository had
\* blocked while its stanza awaited the check: the unit is active again and
\* the marker is still there.
C38_Witness ==
    /\ op = "s3-gone"
    /\ inp.blockedMsg = ANOTHER_CLUSTER_REPOSITORY_ERROR_MESSAGE
    /\ status = ActiveStatus
    /\ stanza = Absent
    /\ initPending = "True"
    /\ calls = << >>

\* ---- C39
\* The calls a credentials-changed run makes up to stanza-create when the
\* bucket is in state b.
StepsToStanzaCreate(b) ==
    IF b = "created"
    THEN << "render", "head_bucket", "create_bucket", "info", "stanza-create" >>
    ELSE << "render", "head_bucket", "info", "stanza-create" >>

\* The info output read by can_use_s3_repository names no stanza but the
\* one the application recorded (st), or the unit's own when none is.
OwnershipValidated(in, st) ==
    /\ in.probe.out = "ok"
    /\ ~first_foreign(in.probe.names, IF st = Absent THEN stanza_name ELSE st)

\* C39: a credentials-changed run of a cluster that is not initialised only
\* defers the event; a run that finds the S3 parameters incomplete calls
\* nothing; a run on a unit that is not the leader only renders the engine
\* configuration; a run whose bucket check fails never reads the repository;
\* and a run that invokes stanza-create had the cluster initialised, the
\* parameters complete, the leadership, the bucket confirmed or created and
\* the ownership validated, and made, in this order, the calls render,
\* head_bucket, (create_bucket,) info, stanza-create.
C39_StanzaCreateComesLast ==
    [][ op' = "s3-changed"
        => /\ ~inp'.clusterInit
              => /\ calls' = << "defer" >>
                 /\ status' = status
                 /\ Persistent' = Persistent
           /\ inp'.clusterInit /\ missing_parameters(inp'.s3)
              => calls' = << >>
           /\ inp'.clusterInit /\ ~missing_parameters(inp'.s3) /\ ~inp'.leader
              => calls' = << "render" >>
           /\ inp'.bucket \notin {"exists", "created"}
              => ~Has(calls', "info")
           /\ Has(calls', "stanza-create")
              => /\ inp'.clusterInit
                 /\ ~missing_parameters(inp'.s3)
                 /\ inp'.leader
                 /\ inp'.bucket \in {"exists", "created"}
                 /\ OwnershipValidated(inp', stanza)
                 /\ Len(calls') >= Len(StepsToStanzaCreate(inp'.bucket))
                 /\ SubSeq(calls', 1, Len(StepsToStanzaCreate(inp'.bucket)))
                        = StepsToStanzaCreate(inp'.bucket)
                 /\ Count(calls', "stanza-create") = 1 ]_vars

\* A leader's run that had to create the bucket and then created the stanza.
C39_Witness ==
    /\ op = "s3-changed"
    /\ inp.clusterInit
    /\ inp.leader
    /\ inp.bucket = "created"
    /\ Len(calls) >= 5
    /\ SubSeq(calls, 1, 5) = StepsToStanzaCreate("created")
    /\ exc = ""
====
